---- MODULE Spec2Model ----
(***************************************************************************)
(* Quiz Master V2: the quiz-attempt lifecycle (take_quiz,                  *)
(* start_quiz_attempt, submit_quiz in main.py), the derived properties of  *)
(* the schema (models.py) and the cleanup job (tasks.py), as a state       *)
(* machine over the rows of the relational store.                          *)
(*                                                                         *)
(* Time is counted in hours.  A null column is NoTime for a datetime,      *)
(* NoScore for a score and NoId for an id held in the cookie session.      *)
(* A Float percentage is the exact fraction <<numerator, denominator>> in  *)
(* lowest terms.                                                           *)
(***************************************************************************)
EXTENDS Integers, Sequences, FiniteSets, TLC

\* ---- bounds of the model ------------------------------------------------
MaxTime == 25
MaxQuestions == 4
NumSessions == 3
\* the largest attempt id handed out
MaxAttemptId == 2

\* the tasks waiting in the queue and the messages handed to the mail transport
MaxQueue == 2
MaxOutbox == 4

\* ---- program constants --------------------------------------------------
CleanupHours == 24
ReminderHours == 1
StatisticsTimeout == 3600
CachePrefix == "quizmaster_"
DefaultPassPercentage == 50

\* ---- null values --------------------------------------------------------
NoTime == -1
NoId == 0
NoScore == <<>>
MissingId == 99

VARIABLES now, utc_offset, users, subjects, chapters, quizzes, questions, options, attempts,
          responses, session, last,
          request, job, queue, outbox, cache

vars == <<now, utc_offset, users, subjects, chapters, quizzes, questions, options, attempts,
          responses, session, last, request, job, queue, outbox, cache>>

db == <<users, subjects, chapters, quizzes, questions, options, attempts, responses>>

\* what lives outside the store and the cookie sessions: request[s], the start
\* request of session s between its two commits; job, the cleanup job between
\* its query and its commit; queue, the tasks handed to the task queue and not
\* yet run; outbox, the messages handed to the mail transport; cache, the
\* key-value store
workers == <<request, job, queue, outbox, cache>>

\* a session without start request under way; the cleanup job not running
IdleRequest == [pc |-> "idle", quiz_id |-> NoId, incomplete_attempts |-> {}]

IdleJob == [pc |-> "idle", old_attempts |-> {}]

\* ---- arithmetic on Float percentages -------------------------------------
RECURSIVE GCD(_, _)
GCD(a, b) == IF b = 0 THEN a ELSE GCD(b, a % b)

\* the Float n/d, d > 0
Frac(n, d) == LET g == GCD(n, d) IN <<n \div g, d \div g>>

FracGE(x, y) == x[1] * y[2] >= y[1] * x[2]

Max(S) == CHOOSE m \in S : \A x \in S : x <= m

Min(S) == CHOOSE m \in S : \A x \in S : m <= x

\* ids in ascending order
RECURSIVE SortedSeq(_)
SortedSeq(S) == IF S = {} THEN <<>>
                ELSE <<Min(S)>> \o SortedSeq(S \ {Min(S)})

\* ---- the store -----------------------------------------------------------
\* INTEGER PRIMARY KEY of SQLite: the largest rowid in the table plus one
NextId(rows) == IF rows = {} THEN 1 ELSE Max({r.id : r \in rows}) + 1

\* variant of is_available: the end of the window is exclusive
is_available_EndExclusive(quiz, t) ==
    IF ~quiz.is_scheduled THEN TRUE
    ELSE IF quiz.start_datetime # NoTime /\ t < quiz.start_datetime THEN FALSE
    ELSE IF quiz.end_datetime # NoTime /\ t >= quiz.end_datetime THEN FALSE
    ELSE TRUE

\* variant of is_available: the end of the window is not checked
is_available_NoEndCheck(quiz, t) ==
    IF ~quiz.is_scheduled THEN TRUE
    ELSE IF quiz.start_datetime # NoTime /\ t < quiz.start_datetime THEN FALSE
    ELSE TRUE

\* Quiz.is_available at clock value t
is_available(quiz, t) ==
    IF ~quiz.is_scheduled THEN TRUE
    ELSE IF quiz.start_datetime # NoTime /\ t < quiz.start_datetime THEN FALSE
    ELSE IF quiz.end_datetime # NoTime /\ t > quiz.end_datetime THEN FALSE
    ELSE TRUE

\* Quiz.registration_open
registration_open(quiz) == TRUE

\* Quiz.time_until_start at clock value t (NoTime for None)
time_until_start(quiz, t) ==
    IF ~quiz.is_scheduled \/ quiz.start_datetime = NoTime THEN NoTime
    ELSE IF t >= quiz.start_datetime THEN NoTime
    ELSE quiz.start_datetime - t

\* Quiz.time_until_end at clock value t (NoTime for None)
time_until_end(quiz, t) ==
    IF ~quiz.is_scheduled \/ quiz.end_datetime = NoTime THEN NoTime
    ELSE IF t >= quiz.end_datetime THEN NoTime
    ELSE quiz.end_datetime - t

\* variant of passed: the threshold itself does not pass
passed_Strict(attempt) ==
    IF attempt.score = NoScore THEN FALSE
    ELSE ~FracGE(quizzes[attempt.quiz_id].pass_percentage, attempt.score)

\* QuizAttempt.passed
passed(attempt) ==
    IF attempt.score = NoScore THEN FALSE
    ELSE FracGE(attempt.score, quizzes[attempt.quiz_id].pass_percentage)

\* quiz.questions
QuizQuestions(q) == {x \in questions : x.quiz_id = q}

QuestionIdsOf(q) == {x.id : x \in QuizQuestions(q)}

\* QuizAttempt.query.filter_by(user_id, quiz_id, is_completed)
AttemptsOf(u, q, completed) ==
    {a \in attempts : a.user_id = u /\ a.quiz_id = q /\ a.is_completed = completed}

\* variant of CompletedAttempts: the check for a prior completed attempt is skipped
CompletedAttempts_None(u, q) == {}

\* previous_attempt: the completed attempts of the pair
CompletedAttempts(u, q) == AttemptsOf(u, q, TRUE)

\* variants of IncompleteAttempts: the query finds nothing; the query filters
\* on the wrong value of the flag
IncompleteAttempts_None(u, q) == {}

IncompleteAttempts_WrongFlag(u, q) == AttemptsOf(u, q, TRUE)

\* incomplete_attempts: the attempts of the pair that are not completed
IncompleteAttempts(u, q) == AttemptsOf(u, q, FALSE)

\* db.session.delete(attempt) for each attempt of D, cascading to responses
ResponsesAfterDelete(D) ==
    {r \in responses : r.attempt_id \notin {a.id : a \in D}}

\* ---- requests --------------------------------------------------------------
\* what a handler returns: status is "redirect", "render" or "error"
Resp(h, status, target, aid, flash) ==
    [handler |-> h, status |-> status, target |-> target, attempt_id |-> aid,
     flash |-> flash]

NoResp == Resp("none", "none", "none", NoId, "none")

\* what a background job returns
JobResult(h, status, n) == [handler |-> h, status |-> status, count |-> n]

\* variant of TaskBoundary: an exception leaves the job
TaskBoundary_Propagates(outcome) == outcome

\* except Exception as e: return {'status': 'error', ...} around the body of
\* every job; outcome is the status the body returned, or "raised"
TaskBoundary(outcome) == IF outcome = "raised" THEN "error" ELSE outcome

\* datetime.utcnow() and datetime.now() of the server
utcnow == now

localnow == now + utc_offset

SessionIds == DOMAIN session

\* the quiz ids a request can name: the stored ones and one that is not stored
QuizIdInputs == DOMAIN quizzes \cup {MissingId}

\* variant of current_user_is_admin: the flag is never seen as set
current_user_is_admin_Never(s) == FALSE

\* current_user.is_admin of the request made on session s
current_user_is_admin(s) == users[session[s].user_id].is_admin

\* the flash of the availability check shared by take_quiz and start_quiz_attempt
UnavailableFlash(quiz, t) ==
    IF quiz.is_scheduled
    THEN IF time_until_start(quiz, t) # NoTime THEN "starts_in" ELSE "has_ended"
    ELSE "not_available"

\* GET /user/quiz/<quiz_id>
take_quiz(s, q) ==
    LET u == session[s].user_id
        R(status, target, aid, flash) == Resp("take_quiz", status, target, aid, flash)
    IN
    IF current_user_is_admin(s)
    THEN /\ last' = R("redirect", "user_dashboard", NoId, "admins_cannot_attempt")
         /\ UNCHANGED <<workers, now, utc_offset, db, session>>
    ELSE IF q \notin DOMAIN quizzes
    THEN /\ last' = R("error", "404", NoId, "none")
         /\ UNCHANGED <<workers, now, utc_offset, db, session>>
    ELSE IF ~is_available(quizzes[q], utcnow)
    THEN /\ last' = R("redirect", "quiz_list", NoId, UnavailableFlash(quizzes[q], utcnow))
         /\ UNCHANGED <<workers, now, utc_offset, db, session>>
    ELSE IF ~registration_open(quizzes[q])
    THEN /\ last' = R("redirect", "quiz_list", NoId, "registration_closed")
         /\ UNCHANGED <<workers, now, utc_offset, db, session>>
    ELSE IF CompletedAttempts(u, q) # {}
    THEN /\ \E previous_attempt \in CompletedAttempts(u, q) :
               last' = R("redirect", "quiz_results", previous_attempt.id, "already_completed")
         /\ UNCHANGED <<workers, now, utc_offset, db, session>>
    ELSE IF QuizQuestions(q) = {}
    THEN /\ last' = R("redirect", "quiz_list", NoId, "no_questions")
         /\ UNCHANGED <<workers, now, utc_offset, db, session>>
    ELSE IF IncompleteAttempts(u, q) # {}
    THEN /\ \E incomplete_attempt \in IncompleteAttempts(u, q) :
               /\ attempts' = (attempts \ {incomplete_attempt}) \cup
                     {[incomplete_attempt EXCEPT !.is_completed = TRUE,
                                                 !.score = Frac(0, 1)]}
               /\ last' = R("render", "take_quiz", NoId, "left_incomplete")
         /\ UNCHANGED <<workers, now, utc_offset, users, subjects, chapters, quizzes, questions, options,
                        responses, session>>
    ELSE /\ last' = R("render", "take_quiz", NoId, "none")
         /\ UNCHANGED <<workers, now, utc_offset, db, session>>

\* GET /user/quiz/<quiz_id>/start
start_quiz_attempt(s, q) ==
    LET u == session[s].user_id
        R(status, target, aid, flash) == Resp("start_quiz_attempt", status, target, aid, flash)
    IN
    IF current_user_is_admin(s)
    THEN /\ last' = R("redirect", "user_dashboard", NoId, "admins_cannot_attempt")
         /\ UNCHANGED <<workers, now, utc_offset, db, session>>
    ELSE IF q \notin DOMAIN quizzes
    THEN /\ last' = R("error", "404", NoId, "none")
         /\ UNCHANGED <<workers, now, utc_offset, db, session>>
    ELSE IF ~is_available(quizzes[q], utcnow)
    THEN /\ last' = R("redirect", "quiz_list", NoId, UnavailableFlash(quizzes[q], utcnow))
         /\ UNCHANGED <<workers, now, utc_offset, db, session>>
    ELSE IF ~registration_open(quizzes[q])
    THEN /\ last' = R("redirect", "quiz_list", NoId, "registration_closed")
         /\ UNCHANGED <<workers, now, utc_offset, db, session>>
    ELSE IF CompletedAttempts(u, q) # {}
    THEN /\ \E previous_attempt \in CompletedAttempts(u, q) :
               last' = R("redirect", "quiz_results", previous_attempt.id, "already_completed")
         /\ UNCHANGED <<workers, now, utc_offset, db, session>>
    ELSE LET incomplete_attempts == IncompleteAttempts(u, q)
             kept == attempts \ incomplete_attempts
             attempt == [id |-> NextId(kept), user_id |-> u, quiz_id |-> q,
                         date_taken |-> localnow, score |-> NoScore,
                         is_completed |-> FALSE]
             time_limit == quizzes[q].time_limit
         IN /\ attempt.id <= MaxAttemptId
            /\ responses' = ResponsesAfterDelete(incomplete_attempts)
            /\ attempts' = kept \cup {attempt}
            /\ session' = [session EXCEPT
                  ![s].current_attempt_id = attempt.id,
                  ![s].time_remaining =
                      IF time_limit # NoTime /\ time_limit # 0
                      THEN time_limit * 60 ELSE NoTime]
            \* the response also records the ids of the attempts deleted
            /\ last' = R("render", "attempt_quiz", attempt.id, "none") @@
                        [incomplete_attempts |-> {a.id : a \in incomplete_attempts}]
            /\ UNCHANGED <<workers, now, utc_offset, users, subjects, chapters, quizzes, questions, options>>

\* start_quiz_attempt as the two transactions it commits, other requests and
\* jobs running in between.  The checks that reject the request write
\* nothing: a rejected request is the single step start_quiz_attempt.
StartPasses(s, q) ==
    /\ ~current_user_is_admin(s)
    /\ q \in DOMAIN quizzes
    /\ is_available(quizzes[q], utcnow)
    /\ registration_open(quizzes[q])
    /\ CompletedAttempts(session[s].user_id, q) = {}

\* up to the first commit: the checks, the query of the incomplete attempts
\* of the pair and their deletion
start_delete(s, q) ==
    /\ request[s].pc = "idle"
    /\ IF ~StartPasses(s, q)
       THEN start_quiz_attempt(s, q)
       ELSE LET incomplete_attempts == IncompleteAttempts(session[s].user_id, q)
                kept == attempts \ incomplete_attempts
            IN /\ NextId(kept) <= MaxAttemptId
               /\ responses' = ResponsesAfterDelete(incomplete_attempts)
               /\ attempts' = kept
               /\ request' = [request EXCEPT ![s] =
                     [pc |-> "deleted", quiz_id |-> q,
                      incomplete_attempts |-> {a.id : a \in incomplete_attempts}]]
               /\ UNCHANGED <<job, queue, outbox, cache, now, utc_offset, users,
                              subjects, chapters, quizzes, questions, options, session, last>>

\* from the first commit to the response: the insert of the new attempt, its
\* commit and the session keys
start_insert(s) ==
    /\ request[s].pc = "deleted"
    /\ LET q == request[s].quiz_id
           attempt == [id |-> NextId(attempts), user_id |-> session[s].user_id,
                       quiz_id |-> q, date_taken |-> localnow, score |-> NoScore,
                       is_completed |-> FALSE]
           time_limit == quizzes[q].time_limit
       IN /\ attempt.id <= MaxAttemptId
          /\ attempts' = attempts \cup {attempt}
          /\ session' = [session EXCEPT
                ![s].current_attempt_id = attempt.id,
                ![s].time_remaining =
                    IF time_limit # NoTime /\ time_limit # 0
                    THEN time_limit * 60 ELSE NoTime]
          /\ last' = Resp("start_quiz_attempt", "render", "attempt_quiz", attempt.id, "none") @@
                      [incomplete_attempts |-> request[s].incomplete_attempts]
          /\ request' = [request EXCEPT ![s] = IdleRequest]
          /\ UNCHANGED <<job, queue, outbox, cache, now, utc_offset, users,
                         subjects, chapters, quizzes, questions, options, responses>>

\* the values a form field question_<id> can carry: absent or empty (Blank),
\* the id of a stored option, or a value that names no stored option
Blank == 0

\* the fields enumerated for question x: blank, a missing option, the options
\* of x, and the first option of another question
FieldValues(x) ==
    LET own == {o.id : o \in {o \in options : o.question_id = x}}
        foreign == {o.id : o \in {o \in options : o.question_id # x}}
    IN {Blank, MissingId} \cup own \cup (IF foreign = {} THEN {} ELSE {Min(foreign)})

\* the forms over the question ids Q: one field value for each question
RECURSIVE FormsOver(_)
FormsOver(Q) ==
    IF Q = {} THEN {[x \in {} |-> Blank]}
    ELSE LET x == Max(Q)
         IN {form @@ (x :> v) : form \in FormsOver(Q \ {x}), v \in FieldValues(x)}

Forms(q) == FormsOver(QuestionIdsOf(q))

\* the forms enumerated for a submit on session s: submit_quiz reads the form
\* only after the checks of the user, the quiz and the attempt reference, so
\* the blank form stands for every form when one of these rejects the request
SubmittedForms(s, q) ==
    IF \/ users[session[s].user_id].is_admin
       \/ q \notin DOMAIN quizzes
       \/ session[s].current_attempt_id = NoId
    THEN {[x \in QuestionIdsOf(q) |-> Blank]}
    ELSE Forms(q)

\* Option.query.get(id): the set holding the row, empty when there is none
OptionGet(id) == {o \in options : o.id = id}

\* variant of score_percentage: the quotient is taken with integer division
score_percentage_IntDiv(correct_answers, total_questions) ==
    IF total_questions > 0 THEN Frac((correct_answers \div total_questions) * 100, 1)
    ELSE Frac(0, 1)

\* score_percentage of submit_quiz
score_percentage(correct_answers, total_questions) ==
    IF total_questions > 0 THEN Frac(correct_answers * 100, total_questions)
    ELSE Frac(0, 1)

\* variant of UpdateAttempt: the score is stored, the attempt stays in progress
UpdateAttempt_ScoreOnly(attempt, score) == [attempt EXCEPT !.score = score]

\* "Update attempt" of submit_quiz: the score is stored and the attempt is
\* marked completed
UpdateAttempt(attempt, score) ==
    [attempt EXCEPT !.score = score, !.is_completed = TRUE]

\* the loop of submit_quiz over quiz.questions (qs: the question ids still to
\* visit): the responses added so far, the count of correct answers, and
\* whether a selected option was missing (selected_option is None)
RECURSIVE SubmitLoop(_, _, _, _)
SubmitLoop(qs, form, attempt_id, acc) ==
    IF qs = <<>> \/ acc.failed THEN acc
    ELSE LET question_id == Head(qs)
             selected_option_id == form[question_id]
         IN IF selected_option_id = Blank
            THEN SubmitLoop(Tail(qs), form, attempt_id, acc)
            ELSE IF OptionGet(selected_option_id) = {}
            THEN [acc EXCEPT !.failed = TRUE]
            ELSE LET selected_option == CHOOSE o \in OptionGet(selected_option_id) : TRUE
                     response == [id |-> NextId(responses \cup acc.added),
                                  attempt_id |-> attempt_id,
                                  question_id |-> question_id,
                                  option_id |-> selected_option.id]
                 IN SubmitLoop(Tail(qs), form, attempt_id,
                       [acc EXCEPT !.added = @ \cup {response},
                                   !.correct_answers =
                                       IF selected_option.is_correct THEN @ + 1 ELSE @])

\* variant of SubmitRejection: a submit is also turned away, like a start,
\* when the quiz is not available at the time of the request
SubmitRejection_Closed(s, q) ==
    IF current_user_is_admin(s)
    THEN Resp("submit_quiz", "redirect", "user_dashboard", NoId, "admins_cannot_attempt")
    ELSE IF q \notin DOMAIN quizzes
    THEN Resp("submit_quiz", "error", "404", NoId, "none")
    ELSE IF ~is_available(quizzes[q], utcnow)
    THEN Resp("submit_quiz", "redirect", "quiz_list", NoId,
              UnavailableFlash(quizzes[q], utcnow))
    ELSE IF session[s].current_attempt_id = NoId
    THEN Resp("submit_quiz", "redirect", "quiz_list", NoId, "invalid_attempt")
    ELSE NoResp

\* the checks of submit_quiz before the attempt is loaded: the response that
\* turns the request away, NoResp when the submit goes on to scoring
SubmitRejection(s, q) ==
    IF current_user_is_admin(s)
    THEN Resp("submit_quiz", "redirect", "user_dashboard", NoId, "admins_cannot_attempt")
    ELSE IF q \notin DOMAIN quizzes
    THEN Resp("submit_quiz", "error", "404", NoId, "none")
    ELSE IF session[s].current_attempt_id = NoId
    THEN Resp("submit_quiz", "redirect", "quiz_list", NoId, "invalid_attempt")
    ELSE NoResp

\* POST /user/quiz/<quiz_id>/submit
submit_quiz(s, q, form) ==
    LET u == session[s].user_id
        attempt_id == session[s].current_attempt_id
        R(status, target, aid, flash) == Resp("submit_quiz", status, target, aid, flash)
    IN
    IF SubmitRejection(s, q) # NoResp
    THEN /\ last' = SubmitRejection(s, q)
         /\ UNCHANGED <<workers, now, utc_offset, db, session>>
    ELSE LET found == {a \in attempts : a.id = attempt_id}
             total_questions == Cardinality(QuizQuestions(q))
             loop == SubmitLoop(SortedSeq(QuestionIdsOf(q)), form, attempt_id,
                                [added |-> {}, correct_answers |-> 0, failed |-> FALSE])
         IN IF loop.failed \/ found = {}
            \* AttributeError on None (or the foreign key of the flushed
            \* response): the request fails and the transaction is rolled back
            THEN /\ last' = R("error", "500", attempt_id, "none")
                 /\ UNCHANGED <<workers, now, utc_offset, db, session>>
            ELSE LET attempt == CHOOSE a \in found : TRUE
                 IN /\ attempts' = (attempts \ {attempt}) \cup
                          {UpdateAttempt(attempt,
                              score_percentage(loop.correct_answers, total_questions))}
                    /\ responses' = responses \cup loop.added
                    /\ session' = [session EXCEPT ![s].current_attempt_id = NoId,
                                                  ![s].time_remaining = NoTime]
                    /\ last' = R("redirect", "quiz_results", attempt_id, "quiz_submitted")
                    /\ UNCHANGED <<workers, now, utc_offset, users, subjects, chapters, quizzes, questions, options>>

\* GET /user/results/<attempt_id>: the attempt handed to the results page,
\* with its derived property passed
quiz_results(s, attempt_id) ==
    LET u == session[s].user_id
        found == {a \in attempts : a.id = attempt_id}
    IN
    /\ IF found = {}
       THEN last' = Resp("quiz_results", "error", "404", attempt_id, "none")
       ELSE LET attempt == CHOOSE a \in found : TRUE
            IN IF attempt.user_id # u /\ ~users[u].is_admin
               THEN last' = Resp("quiz_results", "redirect", "user_dashboard",
                                 attempt_id, "no_permission")
               ELSE last' = [handler |-> "quiz_results", status |-> "render",
                             target |-> "results", attempt_id |-> attempt_id,
                             flash |-> "none", score |-> attempt.score,
                             is_completed |-> attempt.is_completed,
                             pass_percentage |-> quizzes[attempt.quiz_id].pass_percentage,
                             passed |-> passed(attempt)]
    /\ UNCHANGED <<workers, now, utc_offset, db, session>>

\* GET /user/dashboard: the quizzes offered to the user
user_dashboard(s) ==
    /\ last' = [handler |-> "user_dashboard", status |-> "render",
                target |-> "dashboard", attempt_id |-> NoId, flash |-> "none",
                available_quizzes |->
                    {q \in DOMAIN quizzes :
                        is_available(quizzes[q], utcnow) /\ registration_open(quizzes[q])}]
    /\ UNCHANGED <<workers, now, utc_offset, db, session>>

\* tasks.cleanup_incomplete_attempts_task
OldAttempts(t) ==
    {a \in attempts : ~a.is_completed /\ a.date_taken < t - CleanupHours}

cleanup_incomplete_attempts_task ==
    LET old_attempts == OldAttempts(utcnow)
    IN /\ attempts' = attempts \ old_attempts
       /\ responses' = ResponsesAfterDelete(old_attempts)
       /\ last' = JobResult("cleanup_incomplete_attempts_task", "success",
                            Cardinality(old_attempts))
       /\ UNCHANGED <<workers, now, utc_offset, users, subjects, chapters, quizzes, questions, options, session>>

\* the cleanup job as its query and its commit, requests running in between:
\* the query loads the old attempts
cleanup_query ==
    /\ job.pc = "idle"
    /\ job' = [pc |-> "queried", old_attempts |-> {a.id : a \in OldAttempts(utcnow)}]
    /\ UNCHANGED <<request, queue, outbox, cache, now, utc_offset, db, session, last>>

\* the commit deletes the rows that carry the ids of the loaded attempts
\* (DELETE ... WHERE id = ?), with the responses then stored for them
cleanup_commit ==
    /\ job.pc = "queried"
    /\ attempts' = {a \in attempts : a.id \notin job.old_attempts}
    /\ responses' = {r \in responses : r.attempt_id \notin job.old_attempts}
    /\ last' = JobResult("cleanup_incomplete_attempts_task", "success",
                         Cardinality(job.old_attempts))
    /\ job' = IdleJob
    /\ UNCHANGED <<request, queue, outbox, cache, now, utc_offset, users, subjects, chapters, quizzes,
                   questions, options, session>>

\* ---- reminders ------------------------------------------------------------
\* the ids of the users that are no admins
NonAdminIds == {u \in DOMAIN users : ~users[u].is_admin}

\* variant of UpcomingQuizzes: the start may lie in the past
UpcomingQuizzes_NoLowerBound(t) ==
    {q \in DOMAIN quizzes :
        /\ quizzes[q].is_scheduled
        /\ quizzes[q].start_datetime # NoTime
        /\ quizzes[q].start_datetime <= t + ReminderHours}

\* variant of UpcomingQuizzes: a quiz is left out once a reminder for it has
\* been queued or sent
UpcomingQuizzes_Once(t) ==
    {q \in DOMAIN quizzes :
        /\ quizzes[q].is_scheduled
        /\ quizzes[q].start_datetime # NoTime
        /\ quizzes[q].start_datetime >= t
        /\ quizzes[q].start_datetime <= t + ReminderHours
        /\ \A i \in 1..Len(queue) : queue[i].quiz_id # q
        /\ \A i \in 1..Len(outbox) : outbox[i].quiz_id # q}

\* upcoming_quizzes at clock value t: a NULL start satisfies no comparison
UpcomingQuizzes(t) ==
    {q \in DOMAIN quizzes :
        /\ quizzes[q].is_scheduled
        /\ quizzes[q].start_datetime # NoTime
        /\ quizzes[q].start_datetime >= t
        /\ quizzes[q].start_datetime <= t + ReminderHours}

\* send_quiz_reminder_task.delay(quiz.id, user_ids)
ReminderTask(q, user_ids) ==
    [task |-> "send_quiz_reminder_task", quiz_id |-> q, user_ids |-> user_ids]

\* Message(subject, recipients=[user.email], body) of a reminder, with its date
ReminderMail(q, u) == [kind |-> "reminder", quiz_id |-> q, to |-> u, date |-> now]

\* the loop of send_quiz_reminder and of send_quiz_reminder_task over users:
\* one message for each user that is no admin
send_quiz_reminder(q, user_ids) ==
    LET recipients == SortedSeq({u \in user_ids : ~users[u].is_admin})
    IN [i \in 1..Len(recipients) |-> ReminderMail(q, recipients[i])]

\* tasks.send_scheduled_reminders: one task queued for each upcoming quiz
send_scheduled_reminders ==
    LET upcoming_quizzes == SortedSeq(UpcomingQuizzes(utcnow))
        tasks == [i \in 1..Len(upcoming_quizzes) |->
                     ReminderTask(upcoming_quizzes[i], NonAdminIds)]
    IN /\ Len(queue) + Len(tasks) <= MaxQueue
       /\ queue' = queue \o tasks
       /\ last' = JobResult("send_scheduled_reminders", "success", Len(upcoming_quizzes))
       /\ UNCHANGED <<request, job, outbox, cache, now, utc_offset, db, session>>

\* the queue without its i-th task
QueueWithout(i) == SubSeq(queue, 1, i - 1) \o SubSeq(queue, i + 1, Len(queue))

\* send_quiz_notification_task.delay(quiz_id, user_ids)
NotificationTask(q, user_ids) ==
    [task |-> "send_quiz_notification_task", quiz_id |-> q, user_ids |-> user_ids]

\* Message(subject, recipients=[user.email], body) of a task, with its date
TaskMail(kind, q, u) == [kind |-> kind, quiz_id |-> q, to |-> u, date |-> now]

\* variant of AcceptedRecipients: the loop stops at the first send that fails
AcceptedRecipients_AbortOnFailure(recipients, refused) ==
    LET failing == {k \in 1..Len(recipients) : recipients[k] \in refused}
    IN IF failing = {} THEN recipients
       ELSE SubSeq(recipients, 1, Min(failing) - 1)

\* the recipients for which mail.send returns, refused being the users for
\* which it raises: the try of the loop is inside the loop
AcceptedRecipients(recipients, refused) ==
    SelectSeq(recipients, LAMBDA u : u \notin refused)

\* the loop of the notification and reminder tasks over users: the messages
\* sent, success_count and failed_emails
TaskSendLoop(kind, q, user_ids, refused) ==
    LET recipients == SortedSeq({u \in user_ids : ~users[u].is_admin})
        accepted == AcceptedRecipients(recipients, refused)
    IN [mails |-> [k \in 1..Len(accepted) |-> TaskMail(kind, q, accepted[k])],
        success_count |-> Len(accepted),
        failed_emails |-> {recipients[k] : k \in {j \in 1..Len(recipients) :
                                                    recipients[j] \in refused}}]

\* what a task that went through its loop returns
SendResult(h, loop) ==
    JobResult(h, "success", loop.success_count) @@
       [failed |-> Cardinality(loop.failed_emails), failed_emails |-> loop.failed_emails]

\* a caller hands a notification to the task queue
delay_send_quiz_notification_task(q, user_ids) ==
    /\ Len(queue) < MaxQueue
    /\ queue' = Append(queue, NotificationTask(q, user_ids))
    /\ UNCHANGED <<request, job, outbox, cache, now, utc_offset, db, session, last>>

\* tasks.send_quiz_notification_task run by a worker on the i-th task of the
\* queue, mail.send raising for the users of refused
run_send_quiz_notification_task(i, refused) ==
    /\ queue[i].task = "send_quiz_notification_task"
    /\ LET quiz_id == queue[i].quiz_id
           user_ids == queue[i].user_ids \cap DOMAIN users
       IN IF quiz_id \notin DOMAIN quizzes
          THEN /\ last' = JobResult("send_quiz_notification_task", "error", 0)
               /\ outbox' = outbox
          ELSE LET loop == TaskSendLoop("notification", quiz_id, user_ids, refused)
               IN /\ Len(outbox) + Len(loop.mails) <= MaxOutbox
                  /\ outbox' = outbox \o loop.mails
                  /\ last' = SendResult("send_quiz_notification_task", loop)
    /\ queue' = QueueWithout(i)
    /\ UNCHANGED <<request, job, cache, now, utc_offset, db, session>>

\* tasks.send_quiz_reminder_task run by a worker on the i-th task of the
\* queue, mail.send raising for the users of refused
run_send_quiz_reminder_task(i, refused) ==
    /\ queue[i].task = "send_quiz_reminder_task"
    /\ LET quiz_id == queue[i].quiz_id
           user_ids == queue[i].user_ids \cap DOMAIN users
       IN IF quiz_id \notin DOMAIN quizzes
          THEN /\ last' = JobResult("send_quiz_reminder_task", "error", 0)
               /\ outbox' = outbox
          ELSE IF quizzes[quiz_id].start_datetime = NoTime
          \* start_datetime.strftime on None, caught at the task boundary
          THEN /\ last' = JobResult("send_quiz_reminder_task", TaskBoundary("raised"), 0)
               /\ outbox' = outbox
          ELSE LET loop == TaskSendLoop("reminder", quiz_id, user_ids, refused)
               IN /\ Len(outbox) + Len(loop.mails) <= MaxOutbox
                  /\ outbox' = outbox \o loop.mails
                  /\ last' = SendResult("send_quiz_reminder_task", loop)
    /\ queue' = QueueWithout(i)
    /\ UNCHANGED <<request, job, cache, now, utc_offset, db, session>>

\* the run of the reminder task in which the mail transport accepts every
\* message
send_quiz_reminder_task(i) == run_send_quiz_reminder_task(i, {})

\* the messages of send_quiz_reminder for each quiz of the sequence qs
RECURSIVE RemindersFor(_)
RemindersFor(qs) ==
    IF qs = <<>> THEN <<>>
    ELSE send_quiz_reminder(Head(qs), DOMAIN users) \o RemindersFor(Tail(qs))

\* main.send_scheduled_reminders: the messages are sent by the job itself
main_send_scheduled_reminders ==
    LET upcoming_quizzes == SortedSeq(UpcomingQuizzes(utcnow))
        mails == RemindersFor(upcoming_quizzes)
    IN /\ Len(outbox) + Len(mails) <= MaxOutbox
       /\ outbox' = outbox \o mails
       /\ last' = JobResult("main_send_scheduled_reminders", "none", Len(upcoming_quizzes))
       /\ UNCHANGED <<request, job, queue, cache, now, utc_offset, db, session>>

\* ---- the calendar ---------------------------------------------------------
\* the clock counts the hours since 1 January of BaseYear, 00:00; the years
\* from BaseYear to the next leap year have 365 days
BaseYear == 2025

MonthLengths == <<31, 28, 31, 30, 31, 30, 31, 31, 30, 31, 30, 31>>

\* the days of the year before the first of each month
MonthStarts == <<0, 31, 59, 90, 120, 151, 181, 212, 243, 273, 304, 334>>

DaysBeforeMonth(m) == MonthStarts[m]

\* datetime(year, month, day, hour) as a clock value
datetime(year, month, day, hour) ==
    ((year - BaseYear) * 365 + DaysBeforeMonth(month) + (day - 1)) * 24 + hour

\* .year, .month and .day of the datetime with clock value t
DateOf(t) ==
    LET days == t \div 24
        dayofyear == days % 365
        month == CHOOSE m \in 1..12 :
                    /\ DaysBeforeMonth(m) <= dayofyear
                    /\ dayofyear < DaysBeforeMonth(m) + MonthLengths[m]
    IN [year |-> BaseYear + (days \div 365), month |-> month,
        day |-> dayofyear - DaysBeforeMonth(month) + 1]

\* ---- monthly reports -----------------------------------------------------
FracAdd(x, y) == Frac(x[1] * y[2] + y[1] * x[2], x[2] * y[2])

\* sum(attempt.score for attempt in A if attempt.score)
RECURSIVE SumScores(_)
SumScores(A) ==
    IF A = {} THEN Frac(0, 1)
    ELSE LET a == CHOOSE x \in A : TRUE
         IN IF a.score = NoScore THEN SumScores(A \ {a})
            ELSE FracAdd(a.score, SumScores(A \ {a}))

\* attempts[:5] of the attempts ordered by date_taken, latest first
RecentAttempts(A) ==
    IF Cardinality(A) <= 5 THEN A
    ELSE CHOOSE S \in SUBSET A :
            /\ Cardinality(S) = 5
            /\ \A x \in S, y \in A \ S : x.date_taken >= y.date_taken

\* variant of is_first_day: every day is taken for the first of the month
is_first_day_Always(t) == TRUE

\* now.day == 1
is_first_day(t) == DateOf(t).day = 1

\* the attempts of user u selected by the query of the report at clock value
\* t, for a month before December
MonthAttempts(u, t) ==
    LET current_year == DateOf(t).year
        current_month == DateOf(t).month
    IN {a \in attempts :
           /\ a.user_id = u
           /\ a.date_taken >= datetime(current_year, current_month, 1, 0)
           /\ a.date_taken < datetime(current_year, current_month + 1, 1, 0)}

\* send_monthly_report(user) and the body of send_monthly_report_task at
\* clock value t: the status, the messages sent and the counts returned.  In December the third
\* criterion handed to filter() is the conditional expression's else branch,
\* a bare datetime, which filter() refuses (ArgumentError); the score of an
\* attempt without score cannot be formatted with .1f (TypeError); both are
\* caught at the boundary of the function.
MonthlyReport(u, t) ==
    LET NoReport(status) ==
            [status |-> status, mails |-> <<>>, attempts_count |-> 0,
             passed_attempts |-> 0, sum_score |-> Frac(0, 1)]
    IN
    IF u \notin DOMAIN users THEN NoReport("error")
    ELSE IF DateOf(t).month = 12 THEN NoReport("error")
    ELSE LET found == MonthAttempts(u, t)
         IN IF found = {} THEN NoReport("no_data")
            ELSE IF \E a \in RecentAttempts(found) : a.score = NoScore
            THEN NoReport("error")
            ELSE [status |-> "success",
                  mails |-> <<[kind |-> "monthly_report", quiz_id |-> NoId,
                              to |-> u, date |-> t]>>,
                  attempts_count |-> Cardinality(found),
                  passed_attempts |-> Cardinality({a \in found : passed(a)}),
                  sum_score |-> SumScores(found)]

\* send_monthly_report_task.delay(user_id)
ReportTask(u) == [task |-> "send_monthly_report_task", user_id |-> u]

\* tasks.send_monthly_reports: on the first day of the month one task is
\* queued for each user that is no admin
send_monthly_reports ==
    /\ IF is_first_day(utcnow)
       THEN LET user_ids == SortedSeq(NonAdminIds)
                tasks == [i \in 1..Len(user_ids) |-> ReportTask(user_ids[i])]
            IN /\ Len(queue) + Len(tasks) <= MaxQueue
               /\ queue' = queue \o tasks
               /\ last' = JobResult("send_monthly_reports", "success", Len(user_ids))
       ELSE /\ queue' = queue
            /\ last' = JobResult("send_monthly_reports", "skipped", 0)
    /\ UNCHANGED <<request, job, outbox, cache, now, utc_offset, db, session>>

\* tasks.send_monthly_report_task run by a worker on the i-th task of the queue
send_monthly_report_task(i) ==
    /\ queue[i].task = "send_monthly_report_task"
    /\ LET report == MonthlyReport(queue[i].user_id, utcnow)
       IN /\ Len(outbox) + Len(report.mails) <= MaxOutbox
          /\ outbox' = outbox \o report.mails
          /\ last' = JobResult("send_monthly_report_task", report.status,
                               report.attempts_count) @@
                      [user_id |-> queue[i].user_id,
                       passed_attempts |-> report.passed_attempts,
                       sum_score |-> report.sum_score]
    /\ queue' = QueueWithout(i)
    /\ UNCHANGED <<request, job, cache, now, utc_offset, db, session>>

\* the messages of send_monthly_report for each user of the sequence us
RECURSIVE ReportsFor(_, _)
ReportsFor(us, t) ==
    IF us = <<>> THEN <<>>
    ELSE MonthlyReport(Head(us), t).mails \o ReportsFor(Tail(us), t)

\* main.send_automatic_monthly_reports: returns success_count, 0 on any day
\* but the first
send_automatic_monthly_reports ==
    /\ IF is_first_day(utcnow)
       THEN LET mails == ReportsFor(SortedSeq(NonAdminIds), utcnow)
            IN /\ Len(outbox) + Len(mails) <= MaxOutbox
               /\ outbox' = outbox \o mails
               /\ last' = JobResult("send_automatic_monthly_reports", "none", Len(mails))
       ELSE /\ outbox' = outbox
            /\ last' = JobResult("send_automatic_monthly_reports", "none", 0)
    /\ UNCHANGED <<request, job, queue, cache, now, utc_offset, db, session>>

\* ---- statistics ------------------------------------------------------------
\* round(x, 2): the Float x to the nearest hundredth, a tie to the even one
Round2(x) ==
    LET n == x[1] * 100
        f == n \div x[2]
        r == n % x[2]
        up == 2 * r > x[2] \/ (2 * r = x[2] /\ f % 2 = 1)
    IN Frac(IF up THEN f + 1 ELSE f, 100)

\* Cache._get_key: the key of the store for a key of the wrapper
CacheKey(key) == <<CachePrefix, key>>

\* pickle.dumps of a dict and pickle.loads of what was stored
Pickled(value) == [pickle |-> value]

Unpickled(bytes) == bytes.pickle

\* Cache.set(key, value, timeout) for a dict: setex of the pickled value
CacheSet(key, value, timeout) ==
    (CacheKey(key) :> [value |-> Pickled(value), timeout |-> timeout]) @@ cache

\* Cache.exists(key) on the store
CacheExists(store, key) == CacheKey(key) \in DOMAIN store

\* Cache.get(key) on the store: None when the key is absent
CacheGet(store, key) ==
    IF CacheExists(store, key) THEN Unpickled(store[CacheKey(key)].value)
    ELSE "None"

\* variant of completed_attempts: every attempt of the quiz is taken
completed_attempts_All(q) == {a \in attempts : a.quiz_id = q}

\* completed_attempts of update_quiz_statistics_task for quiz q
completed_attempts(q) == {a \in {x \in attempts : x.quiz_id = q} : a.is_completed}

\* stats[quiz.id]
QuizStatistics(q) ==
    LET completed == completed_attempts(q)
        n == Cardinality(completed)
        total == SumScores(completed)
        passes == Cardinality({a \in completed : passed(a)})
    IN IF completed # {}
       THEN [avg_score |-> Round2(Frac(total[1], total[2] * n)),
             pass_rate |-> Round2(Frac(passes * 100, n)),
             total_attempts |-> n,
             last_updated |-> utcnow]
       ELSE [avg_score |-> Frac(0, 1), pass_rate |-> Frac(0, 1),
             total_attempts |-> 0, last_updated |-> utcnow]

\* tasks.update_quiz_statistics_task: sum() over a score that is None raises
\* TypeError, caught at the task boundary
update_quiz_statistics_task ==
    /\ IF \E q \in DOMAIN quizzes : \E a \in completed_attempts(q) : a.score = NoScore
       THEN /\ cache' = cache
            /\ last' = JobResult("update_quiz_statistics_task", TaskBoundary("raised"), 0)
       ELSE /\ cache' = CacheSet("quiz_statistics",
                                 [q \in DOMAIN quizzes |-> QuizStatistics(q)],
                                 StatisticsTimeout)
            /\ last' = JobResult("update_quiz_statistics_task", "success",
                                 Cardinality(DOMAIN quizzes))
    /\ UNCHANGED <<request, job, queue, outbox, now, utc_offset, db, session>>

\* ---- administration: deletes ------------------------------------------------
\* current_user.is_authenticated: load_user finds the row of the session's user
is_authenticated(s) == session[s].user_id \in DOMAIN users

\* the sessions that pass login_required
LoggedIn == {s \in SessionIds : is_authenticated(s)}

\* the check of admin_required passes
admin_required(s) == is_authenticated(s) /\ users[session[s].user_id].is_admin

\* the response of admin_required to a request it turns away
AdminRejected(h) == Resp(h, "redirect", "login", NoId, "need_admin")

\* the table f without the rows of ids
WithoutRows(f, ids) == [k \in DOMAIN f \ ids |-> f[k]]

\* the rows marked deleted at the flush of db.session.delete applied to the
\* subjects S, chapters C0, quizzes Q0, questions X0 and users U: the
\* relationships with cascade="all, delete-orphan" are followed (Subject.chapters,
\* Chapter.quizzes, Quiz.questions, Quiz.attempts, Question.options,
\* User.quiz_attempts, QuizAttempt.responses)
DeleteCascade(S, C0, Q0, X0, U) ==
    LET C == C0 \cup {c \in DOMAIN chapters : chapters[c].subject_id \in S}
        Q == Q0 \cup {q \in DOMAIN quizzes : quizzes[q].chapter_id \in C}
        X == X0 \cup {x.id : x \in {y \in questions : y.quiz_id \in Q}}
        O == {o.id : o \in {y \in options : y.question_id \in X}}
        A == {a.id : a \in {y \in attempts : y.quiz_id \in Q \/ y.user_id \in U}}
        R == {r.id : r \in {y \in responses : y.attempt_id \in A}}
    IN [subjects |-> S, chapters |-> C, quizzes |-> Q, questions |-> X,
        options |-> O, users |-> U, attempts |-> A, responses |-> R]

\* the responses that are not deleted at the flush while their question or
\* option is: Question.responses and Option.responses carry no delete
\* cascade, so the flush sets question_id or option_id of these rows to NULL
DetachedResponses(D) ==
    {r \in responses : /\ r.id \notin D.responses
                       /\ (r.question_id \in D.questions \/ r.option_id \in D.options)}

\* db.session.delete(...) and db.session.commit() of a delete handler h: the
\* columns question_id and option_id are NOT NULL, the UPDATE of a detached
\* response raises IntegrityError and the request fails with nothing deleted
DeleteAndCommit(h, target, D) ==
    IF DetachedResponses(D) # {}
    THEN /\ last' = Resp(h, "error", "500", NoId, "none")
         /\ UNCHANGED <<workers, now, utc_offset, db, session>>
    ELSE /\ users' = WithoutRows(users, D.users)
         /\ subjects' = subjects \ D.subjects
         /\ chapters' = WithoutRows(chapters, D.chapters)
         /\ quizzes' = WithoutRows(quizzes, D.quizzes)
         /\ questions' = {x \in questions : x.id \notin D.questions}
         /\ options' = {o \in options : o.id \notin D.options}
         /\ attempts' = {a \in attempts : a.id \notin D.attempts}
         /\ responses' = {r \in responses : r.id \notin D.responses}
         /\ last' = Resp(h, "redirect", target, NoId, "deleted")
         /\ UNCHANGED <<workers, now, utc_offset, session>>

\* a request that writes nothing
Answer(resp) ==
    /\ last' = resp
    /\ UNCHANGED <<workers, now, utc_offset, db, session>>

\* POST /admin/subjects/delete/<subject_id>
delete_subject(s, subject_id) ==
    IF ~admin_required(s) THEN Answer(AdminRejected("delete_subject"))
    ELSE IF subject_id \notin subjects
    THEN Answer(Resp("delete_subject", "error", "404", NoId, "none"))
    ELSE DeleteAndCommit("delete_subject", "admin_subjects",
                         DeleteCascade({subject_id}, {}, {}, {}, {}))

\* POST /admin/chapters/delete/<chapter_id>
delete_chapter(s, chapter_id) ==
    IF ~admin_required(s) THEN Answer(AdminRejected("delete_chapter"))
    ELSE IF chapter_id \notin DOMAIN chapters
    THEN Answer(Resp("delete_chapter", "error", "404", NoId, "none"))
    ELSE DeleteAndCommit("delete_chapter", "admin_chapters",
                         DeleteCascade({}, {chapter_id}, {}, {}, {}))

\* POST /admin/quizzes/delete/<quiz_id>
delete_quiz(s, quiz_id) ==
    IF ~admin_required(s) THEN Answer(AdminRejected("delete_quiz"))
    ELSE IF quiz_id \notin DOMAIN quizzes
    THEN Answer(Resp("delete_quiz", "error", "404", NoId, "none"))
    ELSE DeleteAndCommit("delete_quiz", "admin_quizzes",
                         DeleteCascade({}, {}, {quiz_id}, {}, {}))

\* POST /admin/questions/<question_id>/delete
delete_question(s, question_id) ==
    IF ~admin_required(s) THEN Answer(AdminRejected("delete_question"))
    ELSE IF question_id \notin {x.id : x \in questions}
    THEN Answer(Resp("delete_question", "error", "404", NoId, "none"))
    ELSE DeleteAndCommit("delete_question", "admin_questions",
                         DeleteCascade({}, {}, {}, {question_id}, {}))

\* POST /admin/users/delete/<user_id>
delete_user(s, user_id) ==
    IF ~admin_required(s) THEN Answer(AdminRejected("delete_user"))
    ELSE IF user_id \notin DOMAIN users
    THEN Answer(Resp("delete_user", "error", "404", NoId, "none"))
    ELSE IF user_id # session[s].user_id
    THEN DeleteAndCommit("delete_user", "admin_users",
                         DeleteCascade({}, {}, {}, {}, {user_id}))
    ELSE Answer(Resp("delete_user", "redirect", "admin_users", NoId, "cannot_delete_self"))

\* variant of toggle_admin: the flag is flipped also for the admin's own row
toggle_admin_NoSelfCheck(s, user_id) ==
    IF ~admin_required(s) THEN Answer(AdminRejected("toggle_admin"))
    ELSE IF user_id \notin DOMAIN users
    THEN Answer(Resp("toggle_admin", "error", "404", NoId, "none"))
    ELSE /\ users' = [users EXCEPT ![user_id].is_admin = ~@]
         /\ last' = Resp("toggle_admin", "redirect", "admin_users", NoId,
                         IF users'[user_id].is_admin THEN "granted" ELSE "revoked")
         /\ UNCHANGED <<workers, now, utc_offset, subjects, chapters, quizzes, questions,
                        options, attempts, responses, session>>

\* GET /admin/users/toggle/<user_id>
toggle_admin(s, user_id) ==
    IF ~admin_required(s) THEN Answer(AdminRejected("toggle_admin"))
    ELSE IF user_id \notin DOMAIN users
    THEN Answer(Resp("toggle_admin", "error", "404", NoId, "none"))
    ELSE IF user_id # session[s].user_id
    THEN /\ users' = [users EXCEPT ![user_id].is_admin = ~@]
         /\ last' = Resp("toggle_admin", "redirect", "admin_users", NoId,
                         IF users'[user_id].is_admin THEN "granted" ELSE "revoked")
         /\ UNCHANGED <<workers, now, utc_offset, subjects, chapters, quizzes, questions,
                        options, attempts, responses, session>>
    ELSE Answer(Resp("toggle_admin", "redirect", "admin_users", NoId, "cannot_change_self"))

\* ---- editing a quiz -----------------------------------------------------------
\* main.send_quiz_notification(quiz, users), mail.send raising for the users
\* of refused: the messages sent and the value returned.  The try encloses
\* the whole loop, so the first send that raises ends it and False is returned.
send_quiz_notification(q, refused) ==
    LET recipients == SortedSeq({u \in DOMAIN users : ~users[u].is_admin})
        failing == {k \in 1..Len(recipients) : recipients[k] \in refused}
        sent == IF failing = {} THEN recipients
                ELSE SubSeq(recipients, 1, Min(failing) - 1)
    IN [mails |-> [k \in 1..Len(sent) |-> TaskMail("notification", q, sent[k])],
        returned |-> (failing = {})]

\* the fields of QuizForm that the model keeps
QuizForms(starts, ends) ==
    [is_scheduled : BOOLEAN, start_datetime : starts, end_datetime : ends]

\* POST /admin/quizzes/edit/<quiz_id> with a form that validates
edit_quiz(s, quiz_id, form, refused) ==
    IF ~admin_required(s)
    THEN Answer(AdminRejected("edit_quiz"))
    ELSE IF quiz_id \notin DOMAIN quizzes
    THEN Answer(Resp("edit_quiz", "error", "404", NoId, "none"))
    ELSE LET was_scheduled == quizzes[quiz_id].is_scheduled
             quiz == [quizzes[quiz_id] EXCEPT
                         !.is_scheduled = form.is_scheduled,
                         !.start_datetime =
                             IF form.is_scheduled THEN form.start_datetime ELSE NoTime,
                         !.end_datetime =
                             IF form.is_scheduled THEN form.end_datetime ELSE NoTime]
             \* the comparison is made after the assignment and the commit
             notify == /\ quiz.is_scheduled /\ quiz.start_datetime # NoTime
                       /\ \/ ~was_scheduled
                          \/ was_scheduled /\ quiz.start_datetime # form.start_datetime
             sending == send_quiz_notification(quiz_id, refused)
         IN /\ quizzes' = [quizzes EXCEPT ![quiz_id] = quiz]
            /\ IF notify
               THEN /\ Len(outbox) + Len(sending.mails) <= MaxOutbox
                    /\ outbox' = outbox \o sending.mails
                    /\ last' = Resp("edit_quiz", "redirect", "admin_quizzes", NoId,
                                    IF sending.returned THEN "updated_notifications_sent"
                                    ELSE "updated_notification_failed")
               ELSE /\ outbox' = outbox
                    /\ last' = Resp("edit_quiz", "redirect", "admin_quizzes", NoId, "updated")
            /\ UNCHANGED <<request, job, queue, cache, now, utc_offset, users, subjects,
                           chapters, questions, options, attempts, responses, session>>

\* ---- report generation, maintenance, faults --------------------------------
\* tasks.generate_performance_report_task(user_ids, format): count is the
\* number of rows of the report
generate_performance_report_task(user_ids, format) ==
    LET found == IF user_ids # {} THEN user_ids \cap DOMAIN users ELSE NonAdminIds
        all_attempts == {a \in attempts : a.user_id \in found}
    IN /\ IF found = {}
          THEN last' = JobResult("generate_performance_report_task", "error", 0)
          ELSE IF format \in {"csv", "json"}
          THEN last' = JobResult("generate_performance_report_task", "success",
                                 Cardinality(all_attempts))
          ELSE last' = JobResult("generate_performance_report_task", "error", 0)
       /\ UNCHANGED <<workers, now, utc_offset, db, session>>

\* cleanup_incomplete_attempts_task.delay(), update_quiz_statistics_task.delay()
MaintenanceTasks ==
    <<[task |-> "cleanup_incomplete_attempts_task"],
      [task |-> "update_quiz_statistics_task"]>>

\* tasks.daily_maintenance
daily_maintenance ==
    /\ Len(queue) + Len(MaintenanceTasks) <= MaxQueue
    /\ queue' = queue \o MaintenanceTasks
    /\ last' = JobResult("daily_maintenance", "success", Len(MaintenanceTasks))
    /\ UNCHANGED <<request, job, outbox, cache, now, utc_offset, db, session>>

\* a worker takes the i-th task off the queue, a maintenance task: the
\* message is acknowledged before the job runs
worker_takes(i) ==
    /\ queue[i].task \in {"cleanup_incomplete_attempts_task", "update_quiz_statistics_task"}
    /\ queue' = QueueWithout(i)
    /\ UNCHANGED <<request, job, outbox, cache, now, utc_offset, db, session, last>>

\* the jobs started by the scheduler or by a caller, and those run off the queue
ScheduledJobs ==
    {"generate_performance_report_task", "cleanup_incomplete_attempts_task",
     "update_quiz_statistics_task", "send_scheduled_reminders",
     "send_monthly_reports", "daily_maintenance"}

QueuedJobs ==
    {"send_quiz_notification_task", "send_quiz_reminder_task", "send_monthly_report_task"}

\* the body of the scheduled job h raises at its first call to the database
\* or the broker: nothing is written
task_raises(h) ==
    /\ last' = JobResult(h, TaskBoundary("raised"), 0)
    /\ UNCHANGED <<workers, now, utc_offset, db, session>>

\* the body of the i-th task of the queue raises at its first call to the
\* database or the mail transport: nothing is sent
queued_task_raises(i) ==
    /\ queue[i].task \in QueuedJobs
    /\ last' = JobResult(queue[i].task, TaskBoundary("raised"), 0)
    /\ queue' = QueueWithout(i)
    /\ UNCHANGED <<request, job, outbox, cache, now, utc_offset, db, session>>

\* the wall clock is set forward to the clock value t
Elapse(t) ==
    /\ t > now
    /\ now' = t
    /\ UNCHANGED <<workers, utc_offset, db, session, last>>

\* the wall clock advances by d hours
Tick(d) ==
    /\ now + d <= MaxTime
    /\ now' = now + d
    /\ UNCHANGED <<workers, utc_offset, db, session, last>>

\* ---- the initial store ---------------------------------------------------
\* no request and no job is under way, nothing is queued, sent or cached
InitWorkers ==
    /\ request = [s \in DOMAIN session |-> IdleRequest]
    /\ job = IdleJob
    /\ queue = <<>>
    /\ outbox = <<>>
    /\ cache = <<>>

\* the Admin row is created first at start-up (main.py), then two registered users
InitUsers == [u \in 1..3 |-> [is_admin |-> (u = 1)]]

\* one subject with one chapter
InitSubjects == {1}

InitChapters == (1 :> [subject_id |-> 1])

\* the user logged in on session s: user 2, user 3, and from the third session
\* on browsers of the admin
SessionUser(s) == IF s = 1 THEN 2 ELSE IF s = 2 THEN 3 ELSE 1

InitSession(n) ==
    [s \in 1..n |-> [user_id |-> SessionUser(s), current_attempt_id |-> NoId,
                     time_remaining |-> NoTime]]

\* a quiz of chapter 1
QuizRow(sched, start, end, pass, limit) ==
    [chapter_id |-> 1, is_scheduled |-> sched, start_datetime |-> start,
     end_datetime |-> end, pass_percentage |-> pass, time_limit |-> limit]

\* n questions attached to quiz q, numbered from first; question k has the
\* options 2k-1 (correct) and 2k (not correct)
QuestionRows(q, first, n) == {[id |-> k, quiz_id |-> q] : k \in first..(first + n - 1)}

OptionRows(qs) ==
    UNION {{[id |-> 2 * x.id - 1, question_id |-> x.id, is_correct |-> TRUE],
            [id |-> 2 * x.id, question_id |-> x.id, is_correct |-> FALSE]} : x \in qs}

UtcOffsets == {0}

\* the clock of the attempt lifecycle is sampled once a day plus an hour
DaySteps == {CleanupHours + 1}

\* quiz 1 (one question) closes at hour 0, quiz 2 (no question) opens at hour 25
Init ==
    /\ now = 0
    /\ utc_offset \in UtcOffsets
    /\ users = InitUsers
    /\ subjects = InitSubjects
    /\ chapters = InitChapters
    /\ quizzes = (1 :> QuizRow(TRUE, NoTime, 0, Frac(DefaultPassPercentage, 1), 30)) @@
                 (2 :> QuizRow(TRUE, 25, NoTime, Frac(DefaultPassPercentage, 1), NoTime))
    /\ questions = QuestionRows(1, 1, 1)
    /\ options = OptionRows(questions)
    /\ attempts = {}
    /\ responses = {}
    /\ session = InitSession(NumSessions)
    /\ last = NoResp
    /\ InitWorkers

Next ==
    \/ \E s \in SessionIds, q \in QuizIdInputs : take_quiz(s, q)
    \/ \E s \in SessionIds, q \in QuizIdInputs : start_quiz_attempt(s, q)
    \/ \E s \in SessionIds, q \in QuizIdInputs : \E form \in SubmittedForms(s, q) : submit_quiz(s, q, form)
    \/ cleanup_incomplete_attempts_task
    \/ \E d \in DaySteps : Tick(d)

Spec == Init /\ [][Next]_vars

\* ---- scoring: one quiz of 0..MaxQuestions questions, one user -----------
PassPercentages == {Frac(DefaultPassPercentage, 1), Frac(75, 1)}

InitScore ==
    /\ now = 0
    /\ utc_offset \in UtcOffsets
    /\ users = InitUsers
    /\ subjects = InitSubjects
    /\ chapters = InitChapters
    /\ \E pass \in PassPercentages :
          quizzes = (1 :> QuizRow(FALSE, NoTime, NoTime, pass, NoTime))
    /\ \E n \in 0..MaxQuestions : questions = QuestionRows(1, 1, n)
    /\ options = OptionRows(questions)
    /\ attempts = {}
    /\ responses = {}
    /\ session = InitSession(1)
    /\ last = NoResp
    /\ InitWorkers

NextScore ==
    \/ \E s \in SessionIds, q \in DOMAIN quizzes : take_quiz(s, q)
    \/ \E s \in SessionIds, q \in DOMAIN quizzes : start_quiz_attempt(s, q)
    \/ \E s \in SessionIds, q \in DOMAIN quizzes : \E form \in SubmittedForms(s, q) : submit_quiz(s, q, form)
    \/ \E s \in SessionIds, a \in 1..MaxAttemptId : quiz_results(s, a)

SpecScore == InitScore /\ [][NextScore]_vars

\* ---- availability: every schedule of one quiz, the clock in hours -------
MaxClock == 4

ScheduleTimes == {NoTime, 1, 3}

HourSteps == {1}

InitAvail ==
    /\ now = 0
    /\ utc_offset \in UtcOffsets
    /\ users = InitUsers
    /\ subjects = InitSubjects
    /\ chapters = InitChapters
    /\ \E sched \in BOOLEAN, start \in ScheduleTimes, end \in ScheduleTimes :
          quizzes = (1 :> QuizRow(sched, start, end, Frac(DefaultPassPercentage, 1), NoTime))
    /\ questions = QuestionRows(1, 1, 1)
    /\ options = OptionRows(questions)
    /\ attempts = {}
    /\ responses = {}
    /\ session = InitSession(1)
    /\ last = NoResp
    /\ InitWorkers

NextAvail ==
    \/ \E s \in SessionIds : user_dashboard(s)
    \/ \E s \in SessionIds, q \in DOMAIN quizzes : take_quiz(s, q)
    \/ \E d \in HourSteps : now < MaxClock /\ Tick(d)

SpecAvail == InitAvail /\ [][NextAvail]_vars

\* ---- cleanup: one user, two quizzes, servers in three time zones ---------
\* the offsets of the server's local time from UTC, in hours
ServerOffsets == {-1, 0, 1}

\* the clock values sampled: two hours a day apart from two others
CleanupClock == {0, 1, CleanupHours, CleanupHours + 1}

InitCleanup ==
    /\ now = 0
    /\ utc_offset \in ServerOffsets
    /\ users = InitUsers
    /\ subjects = InitSubjects
    /\ chapters = InitChapters
    /\ quizzes = (1 :> QuizRow(FALSE, NoTime, NoTime, Frac(DefaultPassPercentage, 1), NoTime)) @@
                 (2 :> QuizRow(FALSE, NoTime, NoTime, Frac(DefaultPassPercentage, 1), NoTime))
    /\ questions = QuestionRows(1, 1, 1) \cup QuestionRows(2, 2, 1)
    /\ options = OptionRows(questions)
    /\ attempts = {}
    /\ responses = {}
    /\ session = InitSession(1)
    /\ last = NoResp
    /\ InitWorkers

NextCleanup ==
    \/ \E s \in SessionIds, q \in DOMAIN quizzes : start_quiz_attempt(s, q)
    \/ \E s \in SessionIds, q \in DOMAIN quizzes : \E form \in SubmittedForms(s, q) : submit_quiz(s, q, form)
    \/ cleanup_incomplete_attempts_task
    \/ \E d \in 1..MaxTime : now + d \in CleanupClock /\ Tick(d)

SpecCleanup == InitCleanup /\ [][NextCleanup]_vars

\* ---- races: one user in two browsers, one quiz, the cleanup job ---------
RaceSessions == 2

InitRace ==
    /\ now = 0
    /\ utc_offset \in UtcOffsets
    /\ users = InitUsers
    /\ subjects = InitSubjects
    /\ chapters = InitChapters
    /\ quizzes = (1 :> QuizRow(FALSE, NoTime, NoTime, Frac(DefaultPassPercentage, 1), NoTime))
    /\ questions = QuestionRows(1, 1, 1)
    /\ options = OptionRows(questions)
    /\ attempts = {}
    /\ responses = {}
    /\ session = [s \in 1..RaceSessions |->
                    [user_id |-> 2, current_attempt_id |-> NoId, time_remaining |-> NoTime]]
    /\ last = NoResp
    /\ InitWorkers

NextRace ==
    \/ \E s \in SessionIds, q \in QuizIdInputs : start_delete(s, q)
    \/ \E s \in SessionIds : start_insert(s)
    \/ \E s \in SessionIds, q \in DOMAIN quizzes : \E form \in SubmittedForms(s, q) : submit_quiz(s, q, form)
    \/ cleanup_query
    \/ cleanup_commit
    \/ \E d \in DaySteps : Tick(d)

SpecRace == InitRace /\ [][NextRace]_vars

\* ---- reminders: two quizzes, every schedule of the first, the clock in hours
ReminderStarts == {NoTime, 0, 2, 3}

InitReminder ==
    /\ now = 0
    /\ utc_offset \in UtcOffsets
    /\ users = InitUsers
    /\ subjects = InitSubjects
    /\ chapters = InitChapters
    /\ \E sched \in BOOLEAN, start \in ReminderStarts :
          quizzes = (1 :> QuizRow(sched, start, NoTime, Frac(DefaultPassPercentage, 1), NoTime)) @@
                    (2 :> QuizRow(TRUE, 2, 3, Frac(DefaultPassPercentage, 1), NoTime))
    /\ questions = QuestionRows(1, 1, 1)
    /\ options = OptionRows(questions)
    /\ attempts = {}
    /\ responses = {}
    /\ session = InitSession(1)
    /\ last = NoResp
    /\ InitWorkers

NextReminder ==
    \/ send_scheduled_reminders
    \/ \E i \in 1..Len(queue) : send_quiz_reminder_task(i)
    \/ main_send_scheduled_reminders
    \/ \E d \in HourSteps : now < MaxClock /\ Tick(d)

SpecReminder == InitReminder /\ [][NextReminder]_vars

\* ---- monthly reports: one user answering two quizzes, three dates --------
\* 31 October 09:00, 1 November 09:00 and 1 December 09:00
ReportClock ==
    {datetime(BaseYear, 10, 31, 9), datetime(BaseYear, 11, 1, 9),
     datetime(BaseYear, 12, 1, 9)}

InitReport ==
    /\ now = datetime(BaseYear, 10, 31, 9)
    /\ utc_offset \in UtcOffsets
    /\ users = InitUsers
    /\ subjects = InitSubjects
    /\ chapters = InitChapters
    /\ quizzes = (1 :> QuizRow(FALSE, NoTime, NoTime, Frac(DefaultPassPercentage, 1), NoTime)) @@
                 (2 :> QuizRow(FALSE, NoTime, NoTime, Frac(DefaultPassPercentage, 1), NoTime))
    /\ questions = QuestionRows(1, 1, 1) \cup QuestionRows(2, 2, 1)
    /\ options = OptionRows(questions)
    /\ attempts = {}
    /\ responses = {}
    /\ session = InitSession(1)
    /\ last = NoResp
    /\ InitWorkers

NextReport ==
    \/ \E s \in SessionIds, q \in DOMAIN quizzes : start_quiz_attempt(s, q)
    \/ \E s \in SessionIds, q \in DOMAIN quizzes : \E form \in SubmittedForms(s, q) : submit_quiz(s, q, form)
    \/ send_monthly_reports
    \/ \E i \in 1..Len(queue) : send_monthly_report_task(i)
    \/ send_automatic_monthly_reports
    \/ \E t \in ReportClock : Elapse(t)

SpecReport == InitReport /\ [][NextReport]_vars

\* ---- statistics: two users answering one quiz of three questions ---------
StatsQuestions == 3

\* the forms of a user who answers or skips: each field blank or the correct
\* option of its question
AnswerForms(s, q) ==
    {form \in SubmittedForms(s, q) :
        \A x \in QuestionIdsOf(q) :
           form[x] # Blank =>
              \E o \in options : o.id = form[x] /\ o.question_id = x /\ o.is_correct}

InitStats ==
    /\ now = 0
    /\ utc_offset \in UtcOffsets
    /\ users = InitUsers
    /\ subjects = InitSubjects
    /\ chapters = InitChapters
    /\ quizzes = (1 :> QuizRow(FALSE, NoTime, NoTime, Frac(DefaultPassPercentage, 1), NoTime))
    /\ questions = QuestionRows(1, 1, StatsQuestions)
    /\ options = OptionRows(questions)
    /\ attempts = {}
    /\ responses = {}
    /\ session = InitSession(2)
    /\ last = NoResp
    /\ InitWorkers

NextStats ==
    \/ \E s \in SessionIds, q \in DOMAIN quizzes : start_quiz_attempt(s, q)
    \/ \E s \in SessionIds, q \in DOMAIN quizzes : \E form \in AnswerForms(s, q) : submit_quiz(s, q, form)
    \/ update_quiz_statistics_task

SpecStats == InitStats /\ [][NextStats]_vars

\* ---- queued mail: notifications and reminders, the transport refusing some
\* the user lists handed to the notification task: every user, and one with
\* a user that is not stored
NotificationLists == {DOMAIN users, {2, MissingId}}

\* quiz 1 starts within the hour, quiz 2 is scheduled without a start
InitMail ==
    /\ now = 0
    /\ utc_offset \in UtcOffsets
    /\ users = InitUsers
    /\ subjects = InitSubjects
    /\ chapters = InitChapters
    /\ quizzes = (1 :> QuizRow(TRUE, 1, NoTime, Frac(DefaultPassPercentage, 1), NoTime)) @@
                 (2 :> QuizRow(TRUE, NoTime, NoTime, Frac(DefaultPassPercentage, 1), NoTime))
    /\ questions = QuestionRows(1, 1, 1)
    /\ options = OptionRows(questions)
    /\ attempts = {}
    /\ responses = {}
    /\ session = InitSession(1)
    /\ last = NoResp
    /\ InitWorkers

\* tasks are queued as long as no message has gone out
NextMail ==
    \/ \E q \in QuizIdInputs, user_ids \in NotificationLists :
          outbox = <<>> /\ delay_send_quiz_notification_task(q, user_ids)
    \/ outbox = <<>> /\ send_scheduled_reminders
    \/ \E i \in 1..Len(queue), refused \in SUBSET DOMAIN users :
          run_send_quiz_notification_task(i, refused)
    \/ \E i \in 1..Len(queue), refused \in SUBSET DOMAIN users :
          run_send_quiz_reminder_task(i, refused)

SpecMail == InitMail /\ [][NextMail]_vars

\* ---- background jobs: every job, on the first and the second of January --
JobClock == {datetime(BaseYear, 1, 1, 9), datetime(BaseYear, 1, 2, 9)}

\* the stores the jobs run on: the empty one, and one in which user 2 has an
\* attempt in progress and user 3 a completed one
JobAttempts ==
    {{},
     {[id |-> 1, user_id |-> 2, quiz_id |-> 1, date_taken |-> 0, score |-> NoScore,
       is_completed |-> FALSE],
      [id |-> 2, user_id |-> 3, quiz_id |-> 1, date_taken |-> 0, score |-> Frac(100, 1),
       is_completed |-> TRUE]}}

ReportFormats == {"csv", "json", "xml"}

ReportLists == {{}, {2}, {MissingId}}

\* quiz 1 starts at 10:00 on 1 January, quiz 2 is scheduled without a start
InitJobs ==
    /\ now \in JobClock
    /\ utc_offset \in UtcOffsets
    /\ users = InitUsers
    /\ subjects = InitSubjects
    /\ chapters = InitChapters
    /\ quizzes = (1 :> QuizRow(TRUE, datetime(BaseYear, 1, 1, 10), NoTime,
                               Frac(DefaultPassPercentage, 1), NoTime)) @@
                 (2 :> QuizRow(TRUE, NoTime, NoTime, Frac(DefaultPassPercentage, 1), NoTime))
    /\ questions = QuestionRows(1, 1, 1)
    /\ options = OptionRows(questions)
    /\ attempts \in JobAttempts
    /\ responses = {[id |-> 1, attempt_id |-> a.id, question_id |-> 1, option_id |-> 1] :
                       a \in {x \in attempts : x.is_completed}}
    /\ session = InitSession(1)
    /\ last = NoResp
    /\ InitWorkers

\* tasks are queued as long as no message has gone out
NextJobs ==
    \/ \E q \in QuizIdInputs :
          outbox = <<>> /\ delay_send_quiz_notification_task(q, DOMAIN users)
    \/ outbox = <<>> /\ send_scheduled_reminders
    \/ outbox = <<>> /\ send_monthly_reports
    \/ outbox = <<>> /\ daily_maintenance
    \/ \E i \in 1..Len(queue), refused \in {{}, {2}} : run_send_quiz_notification_task(i, refused)
    \/ \E i \in 1..Len(queue), refused \in {{}, {2}} : run_send_quiz_reminder_task(i, refused)
    \/ \E i \in 1..Len(queue) : send_monthly_report_task(i)
    \/ \E i \in 1..Len(queue) : worker_takes(i)
    \/ \E user_ids \in ReportLists, format \in ReportFormats :
          generate_performance_report_task(user_ids, format)
    \/ cleanup_incomplete_attempts_task
    \/ update_quiz_statistics_task
    \/ \E h \in ScheduledJobs : task_raises(h)
    \/ \E i \in 1..Len(queue) : queued_task_raises(i)

SpecJobs == InitJobs /\ [][NextJobs]_vars

\* ---- deletes: two subjects with a chapter, a quiz and a question each ------
\* user 2 in one browser, the admin in another
InitDelete ==
    /\ now = 0
    /\ utc_offset \in UtcOffsets
    /\ users = InitUsers
    /\ subjects = {1, 2}
    /\ chapters = (1 :> [subject_id |-> 1]) @@ (2 :> [subject_id |-> 2])
    /\ quizzes = [q \in {1, 2} |->
                     [QuizRow(FALSE, NoTime, NoTime, Frac(DefaultPassPercentage, 1), NoTime)
                         EXCEPT !.chapter_id = q]]
    /\ questions = QuestionRows(1, 1, 1) \cup QuestionRows(2, 2, 1)
    /\ options = OptionRows(questions)
    /\ attempts = {}
    /\ responses = {}
    /\ session = [s \in 1..2 |->
                    [user_id |-> IF s = 1 THEN 2 ELSE 1, current_attempt_id |-> NoId,
                     time_remaining |-> NoTime]]
    /\ last = NoResp
    /\ InitWorkers

NextDelete ==
    \/ \E s \in LoggedIn, q \in DOMAIN quizzes : start_quiz_attempt(s, q)
    \/ \E s \in LoggedIn, q \in DOMAIN quizzes : \E form \in SubmittedForms(s, q) :
          submit_quiz(s, q, form)
    \/ \E s \in SessionIds, x \in subjects : delete_subject(s, x)
    \/ \E s \in SessionIds, x \in DOMAIN chapters : delete_chapter(s, x)
    \/ \E s \in SessionIds, x \in DOMAIN quizzes : delete_quiz(s, x)
    \/ \E s \in SessionIds, x \in {y.id : y \in questions} : delete_question(s, x)
    \/ \E s \in SessionIds, x \in DOMAIN users : delete_user(s, x)

SpecDelete == InitDelete /\ [][NextDelete]_vars

\* ---- late submits: one scheduled quiz with a time limit, the clock in hours --
\* the quiz is open from hour 0 to hour 2 and allows 60 or 90 minutes
TimeLimits == {60, 90}

InitLate ==
    /\ now = 0
    /\ utc_offset \in UtcOffsets
    /\ users = InitUsers
    /\ subjects = InitSubjects
    /\ chapters = InitChapters
    /\ \E limit \in TimeLimits :
          quizzes = (1 :> QuizRow(TRUE, 0, 2, Frac(DefaultPassPercentage, 1), limit))
    /\ questions = QuestionRows(1, 1, 1)
    /\ options = OptionRows(questions)
    /\ attempts = {}
    /\ responses = {}
    /\ session = InitSession(1)
    /\ last = NoResp
    /\ InitWorkers

NextLate ==
    \/ \E s \in SessionIds, q \in DOMAIN quizzes : start_quiz_attempt(s, q)
    \/ \E s \in SessionIds, q \in DOMAIN quizzes : \E form \in SubmittedForms(s, q) :
          submit_quiz(s, q, form)
    \/ \E d \in HourSteps : now < MaxClock /\ Tick(d)

SpecLate == InitLate /\ [][NextLate]_vars

\* ---- editing: one quiz in every schedule, an admin and a user ---------------
\* the users for which the mail transport raises
RefusedSets == {{}, {3}}

InitEdit ==
    /\ now = 0
    /\ utc_offset \in UtcOffsets
    /\ users = InitUsers
    /\ subjects = InitSubjects
    /\ chapters = InitChapters
    /\ \E sched \in BOOLEAN, start \in ScheduleTimes :
          quizzes = (1 :> QuizRow(sched, IF sched THEN start ELSE NoTime, NoTime,
                                  Frac(DefaultPassPercentage, 1), NoTime))
    /\ questions = QuestionRows(1, 1, 1)
    /\ options = OptionRows(questions)
    /\ attempts = {}
    /\ responses = {}
    /\ session = InitSession(NumSessions)
    /\ last = NoResp
    /\ InitWorkers

NextEdit ==
    \E s \in SessionIds, q \in QuizIdInputs, refused \in RefusedSets :
       \E form \in QuizForms(ScheduleTimes, ScheduleTimes) : edit_quiz(s, q, form, refused)

SpecEdit == InitEdit /\ [][NextEdit]_vars

\* ---- user administration: the admin and two users, one browser each --------
\* the user ids named in the requests
UserIdInputs == DOMAIN users \cup {MissingId}

InitAdmin ==
    /\ now = 0
    /\ utc_offset \in UtcOffsets
    /\ users = InitUsers
    /\ subjects = InitSubjects
    /\ chapters = InitChapters
    /\ quizzes = (1 :> QuizRow(FALSE, NoTime, NoTime, Frac(DefaultPassPercentage, 1), NoTime))
    /\ questions = QuestionRows(1, 1, 1)
    /\ options = OptionRows(questions)
    /\ attempts = {}
    /\ responses = {}
    /\ session = InitSession(NumSessions)
    /\ last = NoResp
    /\ InitWorkers

NextAdmin ==
    \/ \E s \in SessionIds, x \in UserIdInputs : toggle_admin(s, x)
    \/ \E s \in SessionIds, x \in UserIdInputs : delete_user(s, x)
    \/ \E s \in LoggedIn, q \in DOMAIN quizzes : start_quiz_attempt(s, q)

SpecAdmin == InitAdmin /\ [][NextAdmin]_vars

\* ---- properties of the attempt lifecycle ----------------------------------
InProgress(u, q) ==
    {a \in attempts : a.user_id = u /\ a.quiz_id = q /\ ~a.is_completed}

Completed(u, q) ==
    {a \in attempts : a.user_id = u /\ a.quiz_id = q /\ a.is_completed}

UserOf(s) == session[s].user_id

\* the window of a quiz spelled out: not scheduled, or no start or start <= t
\* and no end or t <= end
AvailableAt(quiz, t) ==
    \/ ~quiz.is_scheduled
    \/ /\ (quiz.start_datetime = NoTime \/ quiz.start_datetime <= t)
       /\ (quiz.end_datetime = NoTime \/ t <= quiz.end_datetime)

\* C1: after any sequence of take_quiz, start_quiz_attempt and submit_quiz
\* requests and cleanup runs, every (user, quiz) pair has at most one attempt
\* that is not completed.
C1_AtMostOneInProgress ==
    \A u \in DOMAIN users, q \in DOMAIN quizzes : Cardinality(InProgress(u, q)) <= 1

\* a start has just replaced an older attempt of the pair, and the pair has
\* exactly one attempt in progress
C1_Witness ==
    /\ last.handler = "start_quiz_attempt"
    /\ last.status = "render"
    /\ last.incomplete_attempts # {}
    /\ \E a \in attempts :
          /\ a.id = last.attempt_id
          /\ InProgress(a.user_id, a.quiz_id) = {a}

\* C2 as claimed: a completed attempt is never changed again, so every
\* attempt is finalized exactly once.
C2_CompletedNeverChanges ==
    [][\A a \in attempts : a.is_completed => a \in attempts']_vars

\* C3 as claimed: whenever a completed attempt exists for the pair, a start is
\* answered by the warning and the redirect to the prior results, and changes
\* no attempt, no response and no session.
C3_AsClaimed ==
    [][\A s \in SessionIds, q \in DOMAIN quizzes :
          (last'.handler = "start_quiz_attempt" /\ start_quiz_attempt(s, q) /\ Completed(UserOf(s), q) # {}) =>
             /\ last'.status = "redirect"
             /\ last'.target = "quiz_results"
             /\ last'.flash = "already_completed"
             /\ last'.attempt_id \in {a.id : a \in Completed(UserOf(s), q)}
             /\ UNCHANGED <<attempts, responses, session>>]_vars

\* C3 amended: whenever a completed attempt exists for the pair, a start
\* changes no attempt, no response and no session; when the user is no admin
\* and the quiz is available it is answered by the warning and the redirect
\* to the prior results, and otherwise by a redirect elsewhere.
C3_Amended ==
    [][\A s \in SessionIds, q \in DOMAIN quizzes :
          (last'.handler = "start_quiz_attempt" /\ start_quiz_attempt(s, q) /\ Completed(UserOf(s), q) # {}) =>
             /\ UNCHANGED <<attempts, responses, session>>
             /\ last'.status = "redirect"
             /\ IF ~users[UserOf(s)].is_admin /\ is_available(quizzes[q], now)
                THEN /\ last'.target = "quiz_results"
                     /\ last'.flash = "already_completed"
                     /\ last'.attempt_id \in {a.id : a \in Completed(UserOf(s), q)}
                ELSE last'.target \in {"quiz_list", "user_dashboard"}]_vars

\* a start on an available quiz was answered by the redirect to the results
\* of the completed attempt of the pair
C3_Witness ==
    /\ last.handler = "start_quiz_attempt"
    /\ last.status = "redirect"
    /\ last.target = "quiz_results"
    /\ \E a \in attempts : a.id = last.attempt_id /\ a.is_completed

\* C4 as claimed: a start creates an attempt only if the quiz is available,
\* the pair has no completed attempt and the quiz has at least one question.
C4_StartNeedsQuestions ==
    [][\A s \in SessionIds, q \in DOMAIN quizzes :
          (last'.handler = "start_quiz_attempt" /\ start_quiz_attempt(s, q) /\ last'.status = "render") =>
             /\ is_available(quizzes[q], now)
             /\ Completed(UserOf(s), q) = {}
             /\ QuizQuestions(q) # {}]_vars

\* C5: a start that succeeds while the pair has attempts in progress leaves
\* exactly one attempt in progress for the pair; it is the new one (created
\* now, no score, no responses), the session refers to it, the old attempts
\* and their responses are gone and every other attempt is kept.
C5_StartReplacesInProgress ==
    [][\A s \in SessionIds, q \in DOMAIN quizzes :
          (last'.handler = "start_quiz_attempt" /\ start_quiz_attempt(s, q) /\ last'.status = "render"
             /\ InProgress(UserOf(s), q) # {}) =>
          LET old == InProgress(UserOf(s), q)
              new == {a \in attempts' : a.user_id = UserOf(s) /\ a.quiz_id = q
                                         /\ ~a.is_completed}
          IN /\ Cardinality(new) = 1
             /\ \A a \in new :
                   /\ a.id = last'.attempt_id
                   /\ a.id = session'[s].current_attempt_id
                   /\ a.date_taken = localnow
                   /\ a.score = NoScore
             /\ attempts' \ new = attempts \ old
             /\ \A r \in responses' :
                   r.attempt_id \notin {a.id : a \in old} \cup {a.id : a \in new}
             /\ last'.incomplete_attempts = {a.id : a \in old}]_vars

\* a start has replaced an attempt while another user's attempt is stored:
\* the new attempt is the one the session refers to
C5_Witness ==
    /\ last.handler = "start_quiz_attempt"
    /\ last.status = "render"
    /\ last.incomplete_attempts # {}
    /\ Cardinality(attempts) = 2
    /\ \E s \in SessionIds, a \in attempts :
          /\ a.id = last.attempt_id
          /\ session[s].current_attempt_id = a.id
          /\ a.user_id = UserOf(s)
          /\ a.date_taken = localnow
          /\ ~a.is_completed

\* C6 as claimed: take_quiz on an available quiz with questions, by a user
\* who is no admin and has an attempt in progress, completes that attempt
\* with score 0, warns, and redirects to the results of that attempt.
C6_ReentryRedirectsToResults ==
    [][\A s \in SessionIds, q \in DOMAIN quizzes :
          (last'.handler = "take_quiz" /\ take_quiz(s, q) /\ ~users[UserOf(s)].is_admin
             /\ is_available(quizzes[q], now) /\ QuizQuestions(q) # {}
             /\ Completed(UserOf(s), q) = {} /\ InProgress(UserOf(s), q) # {}) =>
          /\ \E a \in InProgress(UserOf(s), q) :
                /\ [a EXCEPT !.is_completed = TRUE, !.score = <<0, 1>>] \in attempts'
                /\ last'.attempt_id = a.id
          /\ last'.flash = "left_incomplete"
          /\ last'.status = "redirect"
          /\ last'.target = "quiz_results"]_vars

\* C8 as claimed: a submit whose session holds no attempt id, or the id of an
\* attempt that is no longer stored, is answered by the 'invalid attempt'
\* warning and a redirect, and changes no attempt and no response.
C8_InvalidAttemptIsWarning ==
    [][\A s \in SessionIds, q \in DOMAIN quizzes : \A form \in SubmittedForms(s, q) :
          (last'.handler = "submit_quiz" /\ submit_quiz(s, q, form) /\ ~users[UserOf(s)].is_admin
             /\ session[s].current_attempt_id \notin {a.id : a \in attempts}) =>
          /\ last'.status = "redirect"
          /\ last'.flash = "invalid_attempt"
          /\ UNCHANGED <<attempts, responses>>]_vars

\* C11: a take_quiz, start_quiz_attempt or submit_quiz request of a user whose
\* is_admin flag is set is rejected (redirect to the dashboard with the
\* 'admins cannot attempt' message) and leaves every attempt, every response
\* and the current-attempt reference of every session unchanged.
C11_AdminRequestsRejected ==
    [][\A s \in SessionIds, q \in QuizIdInputs :
          users[UserOf(s)].is_admin =>
             ((\/ last'.handler = "take_quiz" /\ take_quiz(s, q)
               \/ last'.handler = "start_quiz_attempt" /\ start_quiz_attempt(s, q)
               \/ last'.handler = "submit_quiz" /\
                     \E form \in SubmittedForms(s, q) : submit_quiz(s, q, form)) =>
              /\ last'.status = "redirect"
              /\ last'.target = "user_dashboard"
              /\ last'.flash = "admins_cannot_attempt"
              /\ UNCHANGED <<attempts, responses, session>>)]_vars

\* an admin's request was rejected while attempts of other users are stored,
\* one of them in progress, and no attempt belongs to an admin
C11_Witness ==
    /\ last.handler \in {"start_quiz_attempt", "submit_quiz"}
    /\ last.flash = "admins_cannot_attempt"
    /\ \E a \in attempts : ~a.is_completed
    /\ \A a \in attempts : ~users[a.user_id].is_admin

\* C12 as claimed: a take_quiz or start_quiz_attempt request for a quiz that
\* is not available at request time is answered by a warning and a redirect to
\* the quiz list, and changes no attempt.
C12_AsClaimed ==
    [][\A s \in SessionIds, q \in DOMAIN quizzes :
          ((\/ last'.handler = "take_quiz" /\ take_quiz(s, q)
            \/ last'.handler = "start_quiz_attempt" /\ start_quiz_attempt(s, q))
           /\ ~AvailableAt(quizzes[q], now)) =>
          /\ last'.status = "redirect"
          /\ last'.target = "quiz_list"
          /\ last'.flash \in {"starts_in", "has_ended", "not_available"}
          /\ UNCHANGED <<attempts, responses, session>>]_vars

\* C12 amended: such a request changes no attempt, no response and no
\* session; from a user who is no admin it is answered by the warning (starts
\* in, has ended) and the redirect to the quiz list, from an admin by the
\* redirect to the dashboard of the admin check, which comes first.
C12_Amended ==
    [][\A s \in SessionIds, q \in DOMAIN quizzes :
          ((\/ last'.handler = "take_quiz" /\ take_quiz(s, q)
            \/ last'.handler = "start_quiz_attempt" /\ start_quiz_attempt(s, q))
           /\ ~AvailableAt(quizzes[q], now)) =>
          /\ UNCHANGED <<attempts, responses, session>>
          /\ last'.status = "redirect"
          /\ IF users[UserOf(s)].is_admin
             THEN last'.target = "user_dashboard" /\ last'.flash = "admins_cannot_attempt"
             ELSE /\ last'.target = "quiz_list"
                  /\ last'.flash =
                        (IF quizzes[q].start_datetime # NoTime /\ now < quizzes[q].start_datetime
                         THEN "starts_in" ELSE "has_ended")]_vars

\* a user with an attempt in progress on a quiz whose window has ended asked
\* to start it again and was sent to the quiz list
C12_Witness ==
    /\ last.handler = "start_quiz_attempt"
    /\ last.target = "quiz_list"
    /\ last.flash = "has_ended"
    /\ \E s \in SessionIds, a \in attempts :
          /\ a.user_id = UserOf(s)
          /\ ~a.is_completed
          /\ ~AvailableAt(quizzes[a.quiz_id], now)
          /\ session[s].current_attempt_id = a.id

\* the instant (UTC) at which the row of attempt a was created
CreatedAt(a) == a.date_taken - utc_offset

\* C13 as claimed: a run of the cleanup job removes exactly the attempts in
\* progress that were created more than 24 hours before the run, and their
\* responses, returns their number, and leaves every completed attempt and
\* every younger attempt in progress unchanged.
C13_CleanupRemovesOlderThan24h ==
    [][(last'.handler = "cleanup_incomplete_attempts_task" /\ cleanup_incomplete_attempts_task) =>
          LET old == {a \in attempts : ~a.is_completed /\ now - CreatedAt(a) > CleanupHours}
          IN /\ attempts' = attempts \ old
             /\ responses' = {r \in responses : r.attempt_id \notin {a.id : a \in old}}
             /\ last'.count = Cardinality(old)]_vars

\* C14 as claimed: under every interleaving of the steps of the cleanup job
\* with submits, the commit of the job deletes no attempt that is completed at
\* the moment of the deletion.
C14_CleanupNeverDeletesCompleted ==
    [][(job.pc = "queried" /\ cleanup_commit) =>
          \A a \in attempts \ attempts' : ~a.is_completed]_vars

\* C15: the first commit of a start leaves the pair without attempt in
\* progress, and the number of attempts in progress of a pair rises above one
\* only by the insert of a start that was suspended between its two commits
\* while another start of the pair inserted its attempt: two starts
\* interleaved in this way leave two attempts in progress.
C15_StartNotAtomic ==
    [][/\ \A s \in SessionIds, q \in DOMAIN quizzes :
             (request[s].pc = "idle" /\ request'[s].pc = "deleted" /\ request'[s].quiz_id = q) =>
                {a \in attempts' : a.user_id = UserOf(s) /\ a.quiz_id = q /\ ~a.is_completed} = {}
       /\ \A u \in DOMAIN users, q \in DOMAIN quizzes :
             LET after == {a \in attempts' : a.user_id = u /\ a.quiz_id = q /\ ~a.is_completed}
             IN (Cardinality(after) > 1 /\ Cardinality(InProgress(u, q)) <= 1) =>
                   \E s \in SessionIds :
                      /\ UserOf(s) = u
                      /\ request[s] # IdleRequest
                      /\ request[s].quiz_id = q
                      /\ start_insert(s)
                      /\ InProgress(u, q) # {}]_vars

\* both browsers of the user hold an attempt in progress of the same quiz
C15_Witness ==
    /\ \A s \in SessionIds : request[s].pc = "idle"
    /\ \E a, b \in attempts :
          /\ a.id # b.id
          /\ a.user_id = b.user_id /\ a.quiz_id = b.quiz_id
          /\ ~a.is_completed /\ ~b.is_completed
          /\ session[1].current_attempt_id = a.id
          /\ session[2].current_attempt_id = b.id

\* the quizzes due for a reminder: scheduled, now <= start <= now + 1h
DueQuizzes ==
    {q \in DOMAIN quizzes :
        /\ quizzes[q].is_scheduled
        /\ now <= quizzes[q].start_datetime
        /\ quizzes[q].start_datetime <= now + 1}

\* what a step appends to a queue or an outbox
Appended(old, new) == SubSeq(new, Len(old) + 1, Len(new))

\* C16: a run of the reminder job dispatches a reminder for exactly the
\* quizzes that are scheduled with now <= start_datetime <= now + 1h; the
\* reminder of a quiz goes to every user that is no admin, once, and to no
\* admin, in the queued variant (job, then task) and in the synchronous one.
C16_RemindersForDueQuizzes ==
    [][/\ (last'.handler = "send_scheduled_reminders" /\ send_scheduled_reminders) =>
             LET new == Appended(queue, queue')
             IN /\ {new[i].quiz_id : i \in 1..Len(new)} = DueQuizzes
                /\ Len(new) = Cardinality(DueQuizzes)
                /\ \A i \in 1..Len(new) :
                      new[i].user_ids = {u \in DOMAIN users : ~users[u].is_admin}
                /\ outbox' = outbox
       /\ \A i \in 1..Len(queue) :
             (last'.handler = "send_quiz_reminder_task" /\ send_quiz_reminder_task(i)) =>
             LET new == Appended(outbox, outbox')
             IN /\ \A u \in DOMAIN users :
                      Cardinality({k \in 1..Len(new) :
                                      new[k].to = u /\ new[k].quiz_id = queue[i].quiz_id}) =
                         (IF users[u].is_admin THEN 0 ELSE 1)
                /\ Len(new) = Cardinality({u \in DOMAIN users : ~users[u].is_admin})
       /\ (last'.handler = "main_send_scheduled_reminders" /\ main_send_scheduled_reminders) =>
             LET new == Appended(outbox, outbox')
             IN /\ \A q \in DOMAIN quizzes, u \in DOMAIN users :
                      Cardinality({k \in 1..Len(new) : new[k].to = u /\ new[k].quiz_id = q}) =
                         (IF q \in DueQuizzes /\ ~users[u].is_admin THEN 1 ELSE 0)
                /\ \A k \in 1..Len(new) : new[k].kind = "reminder"]_vars

\* the task of a due quiz has run: every user that is no admin holds its
\* reminder, no admin does, and a scheduled quiz that is not due has none
C16_Witness ==
    /\ last.handler = "send_quiz_reminder_task"
    /\ last.status = "success"
    /\ \E q \in DOMAIN quizzes :
          /\ \A u \in DOMAIN users :
                (\E k \in 1..Len(outbox) : outbox[k].to = u /\ outbox[k].quiz_id = q)
                   <=> ~users[u].is_admin
          /\ \E p \in DOMAIN quizzes :
                /\ quizzes[p].is_scheduled
                /\ \A k \in 1..Len(outbox) : outbox[k].quiz_id # p

\* the reminders of quiz q to user u in the outbox, the tasks of q in the queue
RemindersSent(box, q, u) ==
    Cardinality({k \in 1..Len(box) : box[k].quiz_id = q /\ box[k].to = u})

TasksQueued(qu, q) == Cardinality({k \in 1..Len(qu) : qu[k].quiz_id = q})

\* C17: the reminder job keeps no record of the reminders sent: every run at
\* a time within the hour before the start of a scheduled quiz dispatches
\* the reminder of that quiz once more to every user that is no admin,
\* whatever has been queued or sent before.
C17_RemindersSentAgain ==
    [][/\ (last'.handler = "send_scheduled_reminders" /\ send_scheduled_reminders) =>
             \A q \in DueQuizzes : TasksQueued(queue', q) = TasksQueued(queue, q) + 1
       /\ (last'.handler = "main_send_scheduled_reminders" /\ main_send_scheduled_reminders) =>
             \A q \in DueQuizzes, u \in DOMAIN users :
                ~users[u].is_admin =>
                   RemindersSent(outbox', q, u) = RemindersSent(outbox, q, u) + 1]_vars

\* a user holds two reminders of one quiz, sent by runs at two different
\* times within the hour before its start
C17_Witness ==
    \E i, k \in 1..Len(outbox) :
       /\ outbox[i].quiz_id = outbox[k].quiz_id
       /\ outbox[i].to = outbox[k].to
       /\ outbox[i].date < outbox[k].date
       /\ quizzes[outbox[i].quiz_id].start_datetime - 1 <= outbox[i].date
       /\ outbox[k].date <= quizzes[outbox[i].quiz_id].start_datetime

\* C18: a run of the monthly report job on a day that is not the first of the
\* month returns 'skipped' (0 in the synchronous variant), queues no task and
\* sends no message; on the first day the queued variant dispatches one
\* report task for each user that is no admin and none for an admin, and the
\* synchronous variant reports to users that are no admins only.
C18_MonthlyJobOnFirstDayOnly ==
    [][/\ (last'.handler = "send_monthly_reports" /\ send_monthly_reports) =>
             IF DateOf(now).day # 1
             THEN /\ last'.status = "skipped"
                  /\ queue' = queue
                  /\ outbox' = outbox
             ELSE LET new == Appended(queue, queue')
                  IN /\ last'.status = "success"
                     /\ \A u \in DOMAIN users :
                           Cardinality({k \in 1..Len(new) :
                                           new[k].task = "send_monthly_report_task"
                                           /\ new[k].user_id = u}) =
                              (IF users[u].is_admin THEN 0 ELSE 1)
                     /\ Len(new) = Cardinality({u \in DOMAIN users : ~users[u].is_admin})
       /\ (last'.handler = "send_automatic_monthly_reports" /\ send_automatic_monthly_reports) =>
             IF DateOf(now).day # 1
             THEN /\ last'.count = 0
                  /\ queue' = queue
                  /\ outbox' = outbox
             ELSE LET new == Appended(outbox, outbox')
                  IN /\ last'.count = Len(new)
                     /\ \A k \in 1..Len(new) : ~users[new[k].to].is_admin
                     /\ \A u \in DOMAIN users :
                           Cardinality({k \in 1..Len(new) : new[k].to = u}) <= 1]_vars

\* the job has skipped the 31st of a month in which the user has an attempt,
\* and nothing has been sent
C18_Witness ==
    /\ last.handler = "send_monthly_reports"
    /\ last.status = "skipped"
    /\ DateOf(now).day = 31
    /\ \E a \in attempts : DateOf(a.date_taken).month = DateOf(now).month
    /\ outbox = <<>>

\* the job has queued the tasks on the first day of a month
C18_WitnessFirstDay ==
    /\ last.handler = "send_monthly_reports"
    /\ last.status = "success"
    /\ DateOf(now).day = 1
    /\ {queue[k].user_id : k \in 1..Len(queue)} = {u \in DOMAIN users : ~users[u].is_admin}

\* the attempts of user u with a timestamp in the month of clock value t:
\* from the first day of that month to the first day of the next, December
\* running to 1 January of the next year
AttemptsOfMonth(u, t) ==
    LET y == DateOf(t).year
        m == DateOf(t).month
        first == datetime(y, m, 1, 0)
        next == IF m = 12 THEN datetime(y + 1, 1, 1, 0) ELSE datetime(y, m + 1, 1, 0)
    IN {a \in attempts : a.user_id = u /\ first <= a.date_taken /\ a.date_taken < next}

\* C19 as claimed: in every month, December included, the report of a user
\* covers exactly the attempts of that user with a timestamp in the current
\* month; a user without such an attempt gets no message and the outcome
\* 'no_data', a user with such attempts gets one message and the outcome
\* 'success' with their count.
C19_ReportCoversCurrentMonth ==
    [][\A i \in 1..Len(queue) :
          (last'.handler = "send_monthly_report_task" /\ send_monthly_report_task(i)) =>
          LET covered == AttemptsOfMonth(queue[i].user_id, now)
              new == Appended(outbox, outbox')
          IN IF covered = {}
             THEN last'.status = "no_data" /\ new = <<>>
             ELSE /\ last'.status = "success"
                  /\ last'.count = Cardinality(covered)
                  /\ Len(new) = 1
                  /\ new[1].to = queue[i].user_id]_vars

\* ---- properties of scoring and of the derived properties ------------------
\* the questions of quiz q for which the form selects a correct option
CorrectlyAnswered(q, form) ==
    {x \in QuestionIdsOf(q) : \E o \in options : o.id = form[x] /\ o.is_correct}

\* the form of a submit that succeeded, read back from the rows it added
SubmittedForm(q, added) ==
    [x \in QuestionIdsOf(q) |->
        IF \E r \in added : r.question_id = x
        THEN (CHOOSE r \in added : r.question_id = x).option_id
        ELSE Blank]

\* C7: the score stored by a submit is 100 * c / N for the c questions of the
\* quiz whose submitted option is correct and its N questions, blanks counting
\* in N only: 100 for c = N, 0 for c = 0, 75 for 3 of 4 with one blank, and 0
\* for a quiz without questions.
C7_ScoreIsCorrectOverTotal ==
    [][\A s \in SessionIds, q \in DOMAIN quizzes :
          (last'.handler = "submit_quiz" /\ last'.target = "quiz_results") =>
          LET form == SubmittedForm(q, responses' \ responses)
          IN submit_quiz(s, q, form) =>
             LET N == Cardinality(QuizQuestions(q))
                 c == Cardinality(CorrectlyAnswered(q, form))
                 blanks == Cardinality({x \in QuestionIdsOf(q) : form[x] = Blank})
             IN \A a \in attempts' :
                   a.id = last'.attempt_id =>
                      /\ a.is_completed
                      /\ a.score # NoScore
                      /\ N = 0 => a.score = <<0, 1>>
                      /\ N > 0 => a.score[1] * N = 100 * c * a.score[2]
                      /\ (N > 0 /\ c = N) => a.score = <<100, 1>>
                      /\ c = 0 => a.score = <<0, 1>>
                      /\ (N = 4 /\ c = 3 /\ blanks = 1) => a.score = <<75, 1>>]_vars

\* a submit on the quiz of four questions stored three responses, all with
\* correct options, and the score 75
C7_Witness ==
    /\ last.handler = "submit_quiz"
    /\ last.target = "quiz_results"
    /\ Cardinality(questions) = 4
    /\ Cardinality(responses) = 3
    /\ \A r \in responses : \E o \in options : o.id = r.option_id /\ o.is_correct
    /\ \E a \in attempts : a.id = last.attempt_id /\ a.score = <<75, 1>>

\* a submit on the quiz without questions stored the score 0
C7_WitnessNoQuestions ==
    /\ last.handler = "submit_quiz"
    /\ last.target = "quiz_results"
    /\ questions = {}
    /\ \E a \in attempts : a.id = last.attempt_id /\ a.score = <<0, 1>>

\* C9: an attempt is passed iff its score is not null and is at least the
\* pass percentage of its quiz, the threshold included; the results page
\* shows the same.
C9_PassedIffScoreAtLeastThreshold ==
    /\ \A a \in attempts :
          LET pass == quizzes[a.quiz_id].pass_percentage
          IN passed(a) <=>
                (a.score # NoScore /\ a.score[1] * pass[2] >= pass[1] * a.score[2])
    /\ (last.handler = "quiz_results" /\ last.status = "render") =>
          (last.passed <=>
             (last.score # NoScore /\
              last.score[1] * last.pass_percentage[2] >=
                 last.pass_percentage[1] * last.score[2]))

\* the results page shows as passed an attempt whose score equals the threshold
C9_Witness ==
    /\ last.handler = "quiz_results"
    /\ last.status = "render"
    /\ last.score = last.pass_percentage
    /\ last.passed

\* the results page shows as not passed an attempt without score
C9_WitnessNull ==
    /\ last.handler = "quiz_results"
    /\ last.status = "render"
    /\ last.score = NoScore
    /\ ~last.passed

\* C10: at every clock value, a quiz that is not scheduled is available, and
\* a scheduled quiz is available iff (no start or start <= now) and (no end or
\* now <= end); the dashboard offers exactly these quizzes.
C10_AvailableIffInsideWindow ==
    [][/\ \A q \in DOMAIN quizzes, t \in 0..MaxClock :
             is_available(quizzes[q], t) <=> AvailableAt(quizzes[q], t)
       /\ \A s \in SessionIds :
             (last'.handler = "user_dashboard" /\ user_dashboard(s)) =>
             last'.available_quizzes =
                {q \in DOMAIN quizzes : AvailableAt(quizzes[q], now)}]_vars

\* the dashboard offers a scheduled quiz at the last hour of its window
C10_Witness ==
    /\ last.handler = "user_dashboard"
    /\ quizzes[1].is_scheduled
    /\ quizzes[1].start_datetime # NoTime
    /\ quizzes[1].start_datetime < quizzes[1].end_datetime
    /\ quizzes[1].end_datetime = now
    /\ 1 \in last.available_quizzes

\* ---- statistics refresh job ----------------------------------------------
\* the Float x is a number of hundredths at most half a hundredth from y
RoundedFrom(x, y) ==
    /\ 100 % x[2] = 0
    /\ LET diff == x[1] * y[2] - y[1] * x[2]
       IN 200 * (IF diff < 0 THEN -diff ELSE diff) <= x[2] * y[2]

C20_WitnessAverage ==
    /\ last.handler = "update_quiz_statistics_task"
    /\ Cardinality({a \in attempts : a.quiz_id = 1 /\ a.is_completed}) = 2
    /\ \E a \in attempts : a.is_completed /\ a.score = <<100, 1>>
    /\ \E a \in attempts : a.is_completed /\ a.score = <<100, 3>>
    /\ CacheExists(cache, "quiz_statistics")
    /\ CacheGet(cache, "quiz_statistics")[1].total_attempts = 2
    /\ CacheGet(cache, "quiz_statistics")[1].avg_score = <<6667, 100>>
    /\ CacheGet(cache, "quiz_statistics")[1].pass_rate = <<50, 1>>

BackgroundJobs == ScheduledJobs \cup QueuedJobs

JobStatuses == {"success", "error", "no_data", "skipped"}

\* C22: every background job ends by returning a status that is one of
\* success, error, no_data and skipped; a job whose body raises (database,
\* broker or mail failure, a start time that is missing) returns 'error', as
\* does a task whose quiz or user is not stored; no exception leaves a job.
C22_JobsReturnStatus ==
    [][/\ last'.handler \in BackgroundJobs => last'.status \in JobStatuses
       /\ \A h \in ScheduledJobs :
             (last'.handler = h /\ task_raises(h)) => last'.status = "error"
       /\ \A i \in 1..Len(queue) :
             /\ (last'.handler \in QueuedJobs /\ queued_task_raises(i)) =>
                    last'.status = "error"
             /\ (last'.handler = queue[i].task /\ queue' = QueueWithout(i) /\
                 (\/ queue[i].task = "send_monthly_report_task" /\
                       queue[i].user_id \notin DOMAIN users
                  \/ queue[i].task \in {"send_quiz_notification_task",
                                        "send_quiz_reminder_task"} /\
                       queue[i].quiz_id \notin DOMAIN quizzes)) =>
                    last'.status = "error"]_vars

\* a notification task for a quiz that is not stored has returned 'error'
C22_Witness ==
    /\ last.handler = "send_quiz_notification_task"
    /\ last.status = "error"
    /\ outbox = <<>>

\* the monthly job has returned 'skipped' on the second of the month
C22_WitnessSkipped ==
    /\ last.handler = "send_monthly_reports"
    /\ last.status = "skipped"
    /\ DateOf(now).day = 2

\* the report task of a user without attempts has returned 'no_data'
C22_WitnessNoData ==
    /\ last.handler = "send_monthly_report_task"
    /\ last.status = "no_data"
    /\ attempts = {}

\* the cleanup job has returned 'error' and the store is as it was
C22_WitnessRaised ==
    /\ last.handler = "cleanup_incomplete_attempts_task"
    /\ last.status = "error"
    /\ attempts # {}

\* ---- properties of the ownership hierarchy ---------------------------------
\* every reference of a stored row names a stored row
RefsIntact ==
    /\ \A c \in DOMAIN chapters : chapters[c].subject_id \in subjects
    /\ \A q \in DOMAIN quizzes : quizzes[q].chapter_id \in DOMAIN chapters
    /\ \A x \in questions : x.quiz_id \in DOMAIN quizzes
    /\ \A o \in options : o.question_id \in {x.id : x \in questions}
    /\ \A a \in attempts : a.quiz_id \in DOMAIN quizzes /\ a.user_id \in DOMAIN users
    /\ \A r \in responses :
          /\ r.attempt_id \in {a.id : a \in attempts}
          /\ r.question_id \in {x.id : x \in questions}
          /\ r.option_id \in {o.id : o \in options}

\* C23 as claimed: a delete of a stored subject, chapter, quiz, question or
\* user by an admin (of another user, for a user) succeeds, also when
\* responses are stored, and removes the row; afterwards every reference of a
\* stored chapter, quiz, question, option, attempt or response names a
\* stored row.
C23_DeleteCascades ==
    [][\A s \in SessionIds :
          admin_required(s) =>
             /\ \A x \in subjects :
                   (last'.handler = "delete_subject" /\ delete_subject(s, x)) =>
                      last'.status = "redirect" /\ x \notin subjects' /\ RefsIntact'
             /\ \A x \in DOMAIN chapters :
                   (last'.handler = "delete_chapter" /\ delete_chapter(s, x)) =>
                      last'.status = "redirect" /\ x \notin DOMAIN chapters' /\ RefsIntact'
             /\ \A x \in DOMAIN quizzes :
                   (last'.handler = "delete_quiz" /\ delete_quiz(s, x)) =>
                      last'.status = "redirect" /\ x \notin DOMAIN quizzes' /\ RefsIntact'
             /\ \A x \in {y.id : y \in questions} :
                   (last'.handler = "delete_question" /\ delete_question(s, x)) =>
                      /\ last'.status = "redirect"
                      /\ x \notin {y.id : y \in questions'}
                      /\ RefsIntact'
             /\ \A x \in DOMAIN users \ {session[s].user_id} :
                   (last'.handler = "delete_user" /\ delete_user(s, x)) =>
                      last'.status = "redirect" /\ x \notin DOMAIN users' /\ RefsIntact']_vars

\* ---- properties of concurrent and stale sessions ---------------------------
\* C24 as claimed: under every interleaving of the requests, those of one
\* user in several browsers included, a (user, quiz) pair has at most one
\* completed attempt.
C24_AtMostOneCompleted ==
    \A u \in DOMAIN users, q \in DOMAIN quizzes : Cardinality(Completed(u, q)) <= 1

\* C25 as claimed: a submit_quiz request of session s posted to the submit
\* URL of quiz q changes only attempts of the user of s on quiz q: no attempt
\* of another quiz or of another user is scored or completed by it.
C25_SubmitFinalizesOwnAttemptOfQuiz ==
    [][\A s \in LoggedIn, q \in DOMAIN quizzes : \A form \in SubmittedForms(s, q) :
          (last'.handler = "submit_quiz" /\ submit_quiz(s, q, form)) =>
          \A a \in attempts' \ attempts : a.user_id = UserOf(s) /\ a.quiz_id = q]_vars

\* C26 as claimed: for every stored response, the selected option is an
\* option of the question the response names, and that question is a question
\* of the quiz of the response's attempt.
C26_ResponseOptionBelongsToQuestion ==
    \A r \in responses :
        /\ \A o \in options : o.id = r.option_id => o.question_id = r.question_id
        /\ \A x \in questions, a \in attempts :
              (x.id = r.question_id /\ a.id = r.attempt_id) => x.quiz_id = a.quiz_id

\* C27: in every reachable state an attempt has a score exactly when it is
\* completed, a stored score lies between 0 and 100, and every response
\* belongs to a completed attempt (an attempt in progress has no response and
\* no score).
C27_ScoreIffCompleted ==
    /\ \A a \in attempts :
          /\ (a.score # NoScore) <=> a.is_completed
          /\ a.score # NoScore =>
                FracGE(a.score, Frac(0, 1)) /\ FracGE(Frac(100, 1), a.score)
    /\ \A r \in responses :
          \E a \in attempts : a.id = r.attempt_id /\ a.is_completed

\* a submitted attempt with a response and score 100 next to an attempt in
\* progress of another user
C27_Witness ==
    /\ \E a \in attempts :
          /\ a.is_completed /\ a.score = Frac(100, 1)
          /\ \E r \in responses : r.attempt_id = a.id
    /\ \E a \in attempts : ~a.is_completed /\ a.score = NoScore

\* an abandoned attempt recorded by take_quiz: completed, score 0, no response
C27_WitnessAbandoned ==
    /\ last.handler = "take_quiz" /\ last.flash = "left_incomplete"
    /\ \E a \in attempts :
          /\ a.is_completed /\ a.score = Frac(0, 1)
          /\ \A r \in responses : r.attempt_id # a.id

\* ---- properties of late submits -----------------------------------------------
\* the minutes elapsed at clock value t since attempt a was started
MinutesSince(a, t) == (t - a.date_taken) * 60

\* the submit arrives after the end of the quiz's window
AfterEnd(quiz, t) ==
    quiz.is_scheduled /\ quiz.end_datetime # NoTime /\ t > quiz.end_datetime

\* the submit arrives after the quiz's time limit has run out for attempt a
AfterTimeLimit(quiz, a, t) ==
    quiz.time_limit # NoTime /\ MinutesSince(a, t) > quiz.time_limit

\* C28: submit_quiz checks neither the availability of the quiz nor its time
\* limit: a submit for an attempt in progress that was started inside the
\* window is scored and completes the attempt also when it arrives after
\* end_datetime or more than time_limit minutes after the start.
C28_LateSubmitIsScored ==
    [][\A s \in SessionIds, q \in DOMAIN quizzes : \A form \in SubmittedForms(s, q) :
          \A a \in InProgress(UserOf(s), q) :
             (/\ last'.handler = "submit_quiz"
              /\ submit_quiz(s, q, form)
              /\ session[s].current_attempt_id = a.id
              /\ AvailableAt(quizzes[q], a.date_taken)
              /\ AfterEnd(quizzes[q], now) \/ AfterTimeLimit(quizzes[q], a, now)
              /\ \A x \in QuestionIdsOf(q) : form[x] = Blank \/ OptionGet(form[x]) # {}) =>
             /\ last'.status = "redirect"
             /\ last'.target = "quiz_results"
             /\ last'.flash = "quiz_submitted"
             /\ \E b \in attempts' :
                   /\ b.id = a.id
                   /\ b.is_completed
                   /\ b.score = Frac(100 * Cardinality(CorrectlyAnswered(q, form)),
                                      Cardinality(QuizQuestions(q)))]_vars

\* an attempt started at hour 0 was submitted at hour 2, inside the window
\* but after the time limit, and is completed with score 100
C28_Witness ==
    /\ last.handler = "submit_quiz" /\ last.flash = "quiz_submitted"
    /\ now = 2
    /\ \E a \in attempts :
          /\ a.id = last.attempt_id /\ a.date_taken = 0
          /\ ~AfterEnd(quizzes[a.quiz_id], now)
          /\ AfterTimeLimit(quizzes[a.quiz_id], a, now)
          /\ a.is_completed /\ a.score = Frac(100, 1)

\* an attempt started at hour 2 was submitted at hour 3, after the end of the
\* window and within the time limit, and is completed
C28_WitnessAfterEnd ==
    /\ last.handler = "submit_quiz" /\ last.flash = "quiz_submitted"
    /\ now = 3
    /\ \E a \in attempts :
          /\ a.id = last.attempt_id /\ a.date_taken = 2
          /\ AfterEnd(quizzes[a.quiz_id], now)
          /\ ~AfterTimeLimit(quizzes[a.quiz_id], a, now)
          /\ a.is_completed

\* ---- properties of the administration -------------------------------------------
\* the flashes of an edit that called send_quiz_notification
NotificationFlashes == {"updated_notifications_sent", "updated_notification_failed"}

\* C29 as claimed: an edit by an admin sends the scheduling notification when
\* the quiz becomes newly scheduled (with a start time) or when the start
\* time of an already scheduled quiz is changed, and sends none when a
\* scheduled quiz is saved with its start time unchanged.
C29_EditNotifiesOnScheduleChange ==
    [][\A s \in SessionIds, q \in DOMAIN quizzes :
          (/\ last'.handler = "edit_quiz"
           /\ admin_required(s)
           /\ \E refused \in RefusedSets, form \in QuizForms(ScheduleTimes, ScheduleTimes) :
                 edit_quiz(s, q, form, refused)) =>
          LET old == quizzes[q]
              new == quizzes'[q]
              newly == ~old.is_scheduled /\ new.is_scheduled /\ new.start_datetime # NoTime
              changed == /\ old.is_scheduled /\ new.is_scheduled
                         /\ new.start_datetime # NoTime
                         /\ new.start_datetime # old.start_datetime
              unchanged == /\ old.is_scheduled /\ new.is_scheduled
                           /\ new.start_datetime = old.start_datetime
          IN /\ (newly \/ changed) => last'.flash \in NotificationFlashes
             /\ unchanged => (last'.flash = "updated" /\ outbox' = outbox)
             /\ last'.flash = "updated_notifications_sent" =>
                   outbox' = outbox \o send_quiz_notification(q, {}).mails]_vars

\* the users whose is_admin flag is set
Admins == {u \in DOMAIN users : users[u].is_admin}

\* C30: after any sequence of toggle_admin and delete_user requests at least
\* one user with is_admin = true exists, and a request that passes
\* admin_required leaves the row of the acting admin as it was: an admin can
\* neither revoke their own admin status nor delete their own account.
C30_AnAdminAlwaysExists ==
    /\ [](Admins # {})
    /\ [][\A s \in SessionIds, x \in UserIdInputs :
            (/\ last'.handler \in {"toggle_admin", "delete_user"}
             /\ admin_required(s)
             /\ toggle_admin(s, x) \/ delete_user(s, x)) =>
            /\ UserOf(s) \in DOMAIN users'
            /\ users'[UserOf(s)] = users[UserOf(s)]
            /\ x = UserOf(s) => users' = users]_vars

\* the first admin was deleted by an admin it had appointed, who then revoked
\* the status of the other admin: exactly one admin is left
C30_Witness ==
    /\ last.handler = "toggle_admin" /\ last.flash = "revoked"
    /\ 1 \notin DOMAIN users
    /\ Cardinality(Admins) = 1

\* an admin asked for their own admin status to be changed and was refused
C30_WitnessSelf ==
    /\ last.handler = "toggle_admin" /\ last.flash = "cannot_change_self"
    /\ Admins # {}
====
